---- MODULE Spec2Model ----
(***************************************************************************)
(* A model of the inline key-value store of the Digestive Database         *)
(* (class DigestiveDatabase): the primary map, the metadata map, the       *)
(* write buffer, the operation counters, the two image files on disk and   *)
(* the public calls insert_binary, get_binary, remove, flush, reorganize;  *)
(* of the object's lifetime (constructor, destructor, reopening the same   *)
(* directory); and of the chunk store (class ChunkingEngine) behind the    *)
(* hybrid facade.                                                          *)
(***************************************************************************)
EXTENDS Integers, Sequences, FiniteSets, TLC

\* ------------------------------------------------------------------ bounds
MaxLen == 1      \* longest plaintext, in bytes
MaxOps == 3      \* public calls in one session
MaxTime == 1     \* latest clock reading, in seconds

Keys == {"a", "b"}
\* one non-zero byte value: plaintexts differ by length, and a decoder's
\* zero fill never coincides with plaintext
Byte == {1}
Plaintexts == UNION {[1..n -> Byte] : n \in 0..MaxLen}

\* --------------------------------------------------------- program constants
\* SIZE_MAX stands for 2^64-1; it is only ever compared with footprints far
\* below it, so any number above every reachable footprint behaves alike.
SIZE_MAX == 1000000

TIER_0 == 0
TIER_1 == 1
TIER_2 == 2
TIER_3 == 3
TIER_4 == 4
CompressionTier == {TIER_0, TIER_1, TIER_2, TIER_3, TIER_4}

CompressionAlgo ==
    {"NONE", "LZ4_FAST", "LZ4_HIGH", "ZSTD_FAST", "ZSTD_MEDIUM", "ZSTD_MAX"}
ReorgStrategy == {"MANUAL", "EVERY_N_OPS", "PERIODIC", "ADAPTIVE"}

\* ------------------------------------------------------------ std::map helpers
Put(m, k, v) == [x \in (DOMAIN m) \cup {k} |-> IF x = k THEN v ELSE m[x]]
Erase(m, k) == [x \in (DOMAIN m) \ {k} |-> m[x]]
EmptyMap == [x \in {} |-> 0]
Max2(x, y) == IF x >= y THEN x ELSE y
Min2(x, y) == IF x <= y THEN x ELSE y

\* std::optional<std::vector<uint8_t>>
NullOpt == [has |-> FALSE, val |-> <<>>]
Some(v) == [has |-> TRUE, val |-> v]

\* ------------------------------------------------------------------- codec
\* The LZ4 and ZSTD libraries are modelled by what the store relies on: an
\* encoder emits a stream in the format of its family (one leading byte that
\* names the encoder, then the payload); a decoder accepts exactly the
\* streams of its own family whose payload fits the destination buffer.
Marker(algo) ==
    CASE algo = "LZ4_FAST" -> 101
      [] algo = "LZ4_HIGH" -> 102
      [] algo = "ZSTD_FAST" -> 103
      [] algo = "ZSTD_MEDIUM" -> 104
      [] algo = "ZSTD_MAX" -> 105
      [] OTHER -> 100

LZ4Markers == {101, 102}
ZSTDMarkers == {103, 104, 105}

compress_with_algo(data, algo) ==
    IF algo = "NONE" THEN data ELSE <<Marker(algo)>> \o data

\* std::vector<uint8_t> decompressed(original_size): zero-filled, the
\* decoder writes the payload at its front.
Decoded(payload, original_size) ==
    [i \in 1..original_size |-> IF i <= Len(payload) THEN payload[i] ELSE 0]

decompress_with_algo(data, algo, original_size) ==
    LET accepts(markers) ==
            /\ Len(data) >= 1
            /\ data[1] \in markers
            /\ Len(data) - 1 <= original_size
    IN CASE algo = "NONE" -> data
         [] algo \in {"LZ4_FAST", "LZ4_HIGH"} ->
                IF accepts(LZ4Markers)
                THEN Decoded(Tail(data), original_size) ELSE data
         [] OTHER ->
                IF accepts(ZSTDMarkers)
                THEN Decoded(Tail(data), original_size) ELSE data

\* the decoder of algo reports an error on data (result < 0, ZSTD_isError)
DecodeFails(data, algo, original_size) ==
    /\ algo # "NONE"
    /\ LET markers == IF algo \in {"LZ4_FAST", "LZ4_HIGH"}
                      THEN LZ4Markers ELSE ZSTDMarkers
       IN ~(/\ Len(data) >= 1
            /\ data[1] \in markers
            /\ Len(data) - 1 <= original_size)

\* A caller-supplied compress_fn: an encoder of the caller's own format,
\* which no built-in decoder accepts.
HookMarker == 200
custom_compress(data) == <<HookMarker>> \o data

\* ------------------------------------------------------------ configuration
\* tier_configs[t] is the algorithm of tier t; compress_fn[t] and
\* decompress_fn[t] tell whether the tier has a custom hook installed.
NoHooks == [t \in CompressionTier |-> FALSE]

DefaultTiers ==
    [t \in CompressionTier |->
        CASE t = TIER_0 -> "NONE" [] t = TIER_1 -> "LZ4_FAST"
          [] t = TIER_2 -> "LZ4_HIGH" [] t = TIER_3 -> "ZSTD_MEDIUM"
          [] OTHER -> "ZSTD_MAX"]

VideoTiers ==
    [t \in CompressionTier |->
        IF t \in {TIER_3, TIER_4} THEN "LZ4_FAST" ELSE "NONE"]

\* A size limit the image of a single small record already exceeds.
SmallLimit == 40
\* write_buffer_size values: one that a single compressed blob can reach, and
\* the default, never reached
SmallBuffer == 2
BigBuffer == 10485760

DbConfig(ad, ms, ce, tc, rs, lp, wbs) ==
    [allow_deletion |-> ad, max_size_bytes |-> ms, compression_enabled |-> ce,
     tier_configs |-> tc, reorg_strategy |-> rs,
     reorg_operation_threshold |-> 2, reorg_time_threshold |-> 1,
     reorg_change_num |-> 1, reorg_change_den |-> 1,
     lazy_persistence |-> lp, write_buffer_size |-> wbs,
     compress_fn |-> NoHooks, decompress_fn |-> NoHooks]

\* The configurations explored.  Deletion policy (evicting, warning only,
\* unlimited), codec setup (default tiers, video tiers, compression off),
\* reorganization strategy and persistence (immediate, lazy with a small or
\* a large buffer) are combined so that every pair of choices occurs.
Configs ==
    { DbConfig(TRUE, SmallLimit, TRUE, DefaultTiers, "MANUAL", FALSE, BigBuffer),
      DbConfig(FALSE, SmallLimit, TRUE, VideoTiers, "MANUAL", TRUE, SmallBuffer),
      DbConfig(FALSE, SIZE_MAX, FALSE, DefaultTiers, "MANUAL", TRUE, BigBuffer),
      DbConfig(TRUE, SmallLimit, TRUE, VideoTiers, "EVERY_N_OPS", TRUE, BigBuffer),
      DbConfig(FALSE, SmallLimit, FALSE, DefaultTiers, "EVERY_N_OPS", FALSE, BigBuffer),
      DbConfig(FALSE, SIZE_MAX, TRUE, DefaultTiers, "EVERY_N_OPS", TRUE, SmallBuffer),
      DbConfig(TRUE, SmallLimit, FALSE, DefaultTiers, "PERIODIC", TRUE, SmallBuffer),
      DbConfig(FALSE, SmallLimit, TRUE, DefaultTiers, "PERIODIC", TRUE, BigBuffer),
      DbConfig(FALSE, SIZE_MAX, TRUE, VideoTiers, "PERIODIC", FALSE, BigBuffer),
      DbConfig(TRUE, SmallLimit, TRUE, DefaultTiers, "ADAPTIVE", TRUE, SmallBuffer),
      DbConfig(FALSE, SmallLimit, TRUE, VideoTiers, "ADAPTIVE", FALSE, BigBuffer),
      DbConfig(FALSE, SIZE_MAX, FALSE, DefaultTiers, "ADAPTIVE", TRUE, BigBuffer) }

VARIABLES
    config,                     \* config_
    data_store,                 \* data_store_
    metadata_store,             \* metadata_store_
    write_buffer,               \* write_buffer_
    write_buffer_current_size,  \* write_buffer_current_size_
    total_accesses,             \* total_accesses_
    operations_since_reorg,     \* operations_since_reorg_
    last_reorg_time,            \* last_reorg_time_
    data_db,                    \* <name>.db/data.db
    metadata_db,                \* <name>.db/metadata.db
    now,                        \* the system clock, in seconds
    ncalls,                     \* public calls made so far
    last,                       \* the most recent public call and its result
    ideal,                      \* the plain map the calls describe
    evict_seen,                 \* eviction has run in this session
    phase,                      \* where the object is in its lifetime
    at_close,                   \* the store as the destructor found it
    file_metadata,              \* ChunkingEngine::file_metadata_
    chunk_files,                \* <name>.db/chunks/<key>/chunk_NNN.bin
    chunk_metadata_db,          \* <name>.db/chunks/chunk_metadata.db
    node_heat,                  \* NodeMetadata::heat of every inline key
    last_heat_decay_time,       \* last_heat_decay_time_
    chunked_as                  \* the value each key was last chunked from

\* the lifetime of the object and the chunk store
life_vars == <<phase, at_close>>
hybrid_vars == <<file_metadata, chunk_files, chunk_metadata_db, node_heat,
                 last_heat_decay_time, chunked_as>>

vars == <<config, data_store, metadata_store, write_buffer,
          write_buffer_current_size, total_accesses, operations_since_reorg,
          last_reorg_time, data_db, metadata_db, now, ncalls, last, ideal,
          evict_seen, phase, at_close, file_metadata, chunk_files,
          chunk_metadata_db, node_heat, last_heat_decay_time, chunked_as>>

\* The object's fields and files as one record, threaded through the calls.
Cur ==
    [config |-> config, data_store |-> data_store,
     metadata_store |-> metadata_store, write_buffer |-> write_buffer,
     write_buffer_current_size |-> write_buffer_current_size,
     total_accesses |-> total_accesses,
     operations_since_reorg |-> operations_since_reorg,
     last_reorg_time |-> last_reorg_time,
     data_db |-> data_db, metadata_db |-> metadata_db]

Install(S) ==
    /\ config' = S.config
    /\ data_store' = S.data_store
    /\ metadata_store' = S.metadata_store
    /\ write_buffer' = S.write_buffer
    /\ write_buffer_current_size' = S.write_buffer_current_size
    /\ total_accesses' = S.total_accesses
    /\ operations_since_reorg' = S.operations_since_reorg
    /\ last_reorg_time' = S.last_reorg_time
    /\ data_db' = S.data_db
    /\ metadata_db' = S.metadata_db


\* ------------------------------------------------------------------ files
NoFile == [exists |-> FALSE, bytes |-> 0]

RECURSIVE SumOver(_, _)
SumOver(f, D) ==
    IF D = {} THEN 0
    ELSE LET x == CHOOSE y \in D : TRUE IN f[x] + SumOver(f, D \ {x})

\* key_len:u32 | key | val_len:u32 | val, for every entry of data_store_
DataImage(S) ==
    [exists |-> TRUE, records |-> S.data_store,
     bytes |-> SumOver([k \in DOMAIN S.data_store |->
                           4 + Len(k) + 4 + Len(S.data_store[k])],
                       DOMAIN S.data_store)]

\* three 8-byte counters and a u32 count, then per key: key_len:u32 | key |
\* access_count:u64 | last_access:u64 | tier:int | algorithm:int |
\* original_size:u64 | compressed_size:u64
MetadataImage(S) ==
    [exists |-> TRUE,
     total_accesses |-> S.total_accesses,
     operations_since_reorg |-> S.operations_since_reorg,
     last_reorg_time |-> S.last_reorg_time,
     entries |-> S.metadata_store,
     bytes |-> 8 + 8 + 8 + 4
               + SumOver([k \in DOMAIN S.metadata_store |->
                             4 + Len(k) + 8 + 8 + 4 + 4 + 8 + 8],
                         DOMAIN S.metadata_store)]

save_to_disk(S) == [S EXCEPT !.data_db = DataImage(S)]

save_metadata(S) == [S EXCEPT !.metadata_db = MetadataImage(S)]

\* the regular files directly under <name>.db/
get_size_on_disk(S) ==
    (IF S.data_db.exists THEN S.data_db.bytes ELSE 0)
    + (IF S.metadata_db.exists THEN S.metadata_db.bytes ELSE 0)

\* ------------------------------------------------------------ private methods
compress(S, data, tier) ==
    IF S.config.compress_fn[tier] THEN custom_compress(data)
    ELSE compress_with_algo(data, S.config.tier_configs[tier])

decompress(data, algo, original_size) ==
    decompress_with_algo(data, algo, original_size)

\* calculate_tier that compares the raw access count, not the share
calculate_tier_RawCount(S, access_count) ==
    IF S.total_accesses = 0 THEN TIER_4
    ELSE IF access_count > 30 THEN TIER_0
    ELSE IF access_count > 15 THEN TIER_1
    ELSE IF access_count > 5 THEN TIER_2
    ELSE IF access_count > 1 THEN TIER_3
    ELSE TIER_4

calculate_tier(S, access_count) ==
    IF S.total_accesses = 0 THEN TIER_4
    ELSE IF access_count * 100 > 30 * S.total_accesses THEN TIER_0
    ELSE IF access_count * 100 > 15 * S.total_accesses THEN TIER_1
    ELSE IF access_count * 100 > 5 * S.total_accesses THEN TIER_2
    ELSE IF access_count * 100 > 1 * S.total_accesses THEN TIER_3
    ELSE TIER_4

\* flush with data_store_.insert(), which keeps an existing entry
flush_KeepsPrimary(S) ==
    IF DOMAIN S.write_buffer = {} THEN S
    ELSE [S EXCEPT
            !.data_store =
                [k \in (DOMAIN S.data_store) \cup (DOMAIN S.write_buffer) |->
                    IF k \in DOMAIN S.data_store
                    THEN S.data_store[k] ELSE S.write_buffer[k]],
            !.write_buffer = EmptyMap,
            !.write_buffer_current_size = 0]

flush(S) ==
    IF DOMAIN S.write_buffer = {} THEN S
    ELSE [S EXCEPT
            !.data_store =
                [k \in (DOMAIN S.data_store) \cup (DOMAIN S.write_buffer) |->
                    IF k \in DOMAIN S.write_buffer
                    THEN S.write_buffer[k] ELSE S.data_store[k]],
            !.write_buffer = EmptyMap,
            !.write_buffer_current_size = 0]

\* ReorgNode without metadata.compressed_size = recompressed.size()
ReorgNode_KeepsSize(S, key) ==
    LET metadata == S.metadata_store[key]
        new_tier == calculate_tier(S, metadata.access_count)
        new_algo == S.config.tier_configs[new_tier]
        changed == new_tier # metadata.tier \/ new_algo # metadata.algorithm
    IN IF changed /\ key \in DOMAIN S.data_store
       THEN LET decompressed ==
                    IF S.config.compression_enabled
                    THEN decompress(S.data_store[key], metadata.algorithm,
                                    metadata.original_size)
                    ELSE S.data_store[key]
                recompressed ==
                    IF S.config.compression_enabled
                    THEN compress_with_algo(decompressed, new_algo)
                    ELSE decompressed
            IN [meta |-> [metadata EXCEPT !.tier = new_tier,
                                          !.algorithm = new_algo],
                blob |-> Some(recompressed)]
       ELSE [meta |-> metadata,
             blob |-> IF key \in DOMAIN S.data_store
                      THEN Some(S.data_store[key]) ELSE NullOpt]

\* ReorgNode that re-encodes the stored blob without decoding it first
ReorgNode_NoDecode(S, key) ==
    LET metadata == S.metadata_store[key]
        new_tier == calculate_tier(S, metadata.access_count)
        new_algo == S.config.tier_configs[new_tier]
        changed == new_tier # metadata.tier \/ new_algo # metadata.algorithm
    IN IF changed /\ key \in DOMAIN S.data_store
       THEN LET decompressed == S.data_store[key]
                recompressed ==
                    IF S.config.compression_enabled
                    THEN compress_with_algo(decompressed, new_algo)
                    ELSE decompressed
            IN [meta |-> [metadata EXCEPT !.tier = new_tier,
                                          !.algorithm = new_algo,
                                          !.compressed_size = Len(recompressed)],
                blob |-> Some(recompressed)]
       ELSE [meta |-> metadata,
             blob |-> IF key \in DOMAIN S.data_store
                      THEN Some(S.data_store[key]) ELSE NullOpt]

\* One node of the reorganization loop: the metadata and blob of key after it.
ReorgNode(S, key) ==
    LET metadata == S.metadata_store[key]
        new_tier == calculate_tier(S, metadata.access_count)
        new_algo == S.config.tier_configs[new_tier]
        changed == new_tier # metadata.tier \/ new_algo # metadata.algorithm
    IN IF changed /\ key \in DOMAIN S.data_store
       THEN LET decompressed ==
                    IF S.config.compression_enabled
                    THEN decompress(S.data_store[key], metadata.algorithm,
                                    metadata.original_size)
                    ELSE S.data_store[key]
                recompressed ==
                    IF S.config.compression_enabled
                    THEN compress_with_algo(decompressed, new_algo)
                    ELSE decompressed
            IN [meta |-> [metadata EXCEPT !.tier = new_tier,
                                          !.algorithm = new_algo,
                                          !.compressed_size = Len(recompressed)],
                blob |-> Some(recompressed)]
       ELSE [meta |-> metadata,
             blob |-> IF key \in DOMAIN S.data_store
                      THEN Some(S.data_store[key]) ELSE NullOpt]

reorganize(S, t) ==
    LET S1 == [S EXCEPT
                 !.metadata_store =
                     [k \in DOMAIN S.metadata_store |-> ReorgNode(S, k).meta],
                 !.data_store =
                     [k \in DOMAIN S.data_store |->
                         IF k \in DOMAIN S.metadata_store
                         THEN ReorgNode(S, k).blob.val ELSE S.data_store[k]]]
        S2 == save_metadata(save_to_disk(S1))
    IN [S2 EXCEPT !.operations_since_reorg = 0, !.last_reorg_time = t]

calculate_access_pattern_change_ge(S) ==
    \* operations_since_reorg_ / metadata_store_.size() >= reorg_change_threshold
    IF DOMAIN S.metadata_store = {}
    THEN 0 >= S.config.reorg_change_num
    ELSE S.operations_since_reorg * S.config.reorg_change_den
            >= S.config.reorg_change_num * Cardinality(DOMAIN S.metadata_store)

\* should_reorganize with MANUAL falling through to the EVERY_N_OPS case
should_reorganize_ManualFallsThrough(S, t) ==
    CASE S.config.reorg_strategy \in {"MANUAL", "EVERY_N_OPS"} ->
            S.operations_since_reorg >= S.config.reorg_operation_threshold
      [] S.config.reorg_strategy = "PERIODIC" ->
            (t - S.last_reorg_time) >= S.config.reorg_time_threshold
      [] OTHER -> calculate_access_pattern_change_ge(S)

\* should_reorganize with > in place of >= in the EVERY_N_OPS case
should_reorganize_Strict(S, t) ==
    CASE S.config.reorg_strategy = "MANUAL" -> FALSE
      [] S.config.reorg_strategy = "EVERY_N_OPS" ->
            S.operations_since_reorg > S.config.reorg_operation_threshold
      [] S.config.reorg_strategy = "PERIODIC" ->
            (t - S.last_reorg_time) >= S.config.reorg_time_threshold
      [] OTHER -> calculate_access_pattern_change_ge(S)

should_reorganize(S, t) ==
    CASE S.config.reorg_strategy = "MANUAL" -> FALSE
      [] S.config.reorg_strategy = "EVERY_N_OPS" ->
            S.operations_since_reorg >= S.config.reorg_operation_threshold
      [] S.config.reorg_strategy = "PERIODIC" ->
            (t - S.last_reorg_time) >= S.config.reorg_time_threshold
      [] OTHER -> calculate_access_pattern_change_ge(S)

check_reorganization_trigger(S, t) ==
    IF ~should_reorganize(S, t) THEN S ELSE reorganize(S, t)

after_operation(S, t) ==
    check_reorganization_trigger(
        [S EXCEPT !.operations_since_reorg = @ + 1], t)

\* The outcomes std::sort may leave in items: every arrangement of the keys
\* in which no element's access_count is below that of an element before it
\* (the comparator looks at access_count only and the sort is not stable).
SortedItems(S) ==
    LET K == DOMAIN S.metadata_store
        n == Cardinality(K)
    IN {s \in [1..n -> K] :
          /\ \A i, j \in 1..n : i # j => s[i] # s[j]
          /\ \A i, j \in 1..n :
                i < j => ~(S.metadata_store[s[j]].access_count
                             < S.metadata_store[s[i]].access_count)}

\* delete_coldest_data erasing the blobs and leaving the metadata
delete_coldest_data_KeepsMetadata(S, items) ==
    LET delete_count == Max2(Len(items) \div 10, 1)
        gone == {items[i] : i \in 1..Min2(delete_count, Len(items))}
        S1 == [S EXCEPT
                 !.data_store = [k \in (DOMAIN S.data_store) \ gone |->
                                    S.data_store[k]],
                 !.write_buffer = [k \in (DOMAIN S.write_buffer) \ gone |->
                                      S.write_buffer[k]]]
    IN save_metadata(save_to_disk(S1))

delete_coldest_data(S, items) ==
    LET delete_count == Max2(Len(items) \div 10, 1)
        gone == {items[i] : i \in 1..Min2(delete_count, Len(items))}
        S1 == [S EXCEPT
                 !.data_store = [k \in (DOMAIN S.data_store) \ gone |->
                                    S.data_store[k]],
                 !.metadata_store = [k \in (DOMAIN S.metadata_store) \ gone |->
                                        S.metadata_store[k]],
                 !.write_buffer = [k \in (DOMAIN S.write_buffer) \ gone |->
                                      S.write_buffer[k]]]
    IN save_metadata(save_to_disk(S1))

SizeLimitExceeded(S) == get_size_on_disk(S) > S.config.max_size_bytes

\* check_size_limit without the allow_deletion test
check_size_limit_AlwaysDeletes(S, items) ==
    IF SizeLimitExceeded(S) THEN delete_coldest_data(S, items) ELSE S

check_size_limit(S, items) ==
    IF SizeLimitExceeded(S) /\ S.config.allow_deletion
    THEN delete_coldest_data(S, items)
    ELSE S

\* insert_binary keeping the access_count of a key it overwrites
InsertStore_KeepsCount(S, key, data, t) ==
    LET tier == TIER_4
        algo == S.config.tier_configs[tier]
        compressed == IF S.config.compression_enabled
                      THEN compress(S, data, tier) ELSE data
        metadata == [access_count |->
                         IF key \in DOMAIN S.metadata_store
                         THEN S.metadata_store[key].access_count ELSE 0,
                     last_access |-> t, tier |-> tier,
                     algorithm |-> algo, original_size |-> Len(data),
                     compressed_size |-> Len(compressed)]
        S1 == IF S.config.lazy_persistence
              THEN LET B == [S EXCEPT
                               !.write_buffer = Put(@, key, compressed),
                               !.write_buffer_current_size =
                                   @ + Len(compressed)]
                   IN IF B.write_buffer_current_size
                            >= S.config.write_buffer_size
                      THEN flush(B) ELSE B
              ELSE [S EXCEPT !.data_store = Put(@, key, compressed)]
    IN [S1 EXCEPT !.metadata_store = Put(@, key, metadata)]

\* insert_binary flushing only above write_buffer_size
InsertStore_StrictThreshold(S, key, data, t) ==
    LET tier == TIER_4
        algo == S.config.tier_configs[tier]
        compressed == IF S.config.compression_enabled
                      THEN compress(S, data, tier) ELSE data
        metadata == [access_count |-> 0, last_access |-> t, tier |-> tier,
                     algorithm |-> algo, original_size |-> Len(data),
                     compressed_size |-> Len(compressed)]
        S1 == IF S.config.lazy_persistence
              THEN LET B == [S EXCEPT
                               !.write_buffer = Put(@, key, compressed),
                               !.write_buffer_current_size =
                                   @ + Len(compressed)]
                   IN IF B.write_buffer_current_size
                            > S.config.write_buffer_size
                      THEN flush(B) ELSE B
              ELSE [S EXCEPT !.data_store = Put(@, key, compressed)]
    IN [S1 EXCEPT !.metadata_store = Put(@, key, metadata)]

\* insert_binary up to the point where the metadata is installed
InsertStore(S, key, data, t) ==
    LET tier == TIER_4
        algo == S.config.tier_configs[tier]
        compressed == IF S.config.compression_enabled
                      THEN compress(S, data, tier) ELSE data
        metadata == [access_count |-> 0, last_access |-> t, tier |-> tier,
                     algorithm |-> algo, original_size |-> Len(data),
                     compressed_size |-> Len(compressed)]
        S1 == IF S.config.lazy_persistence
              THEN LET B == [S EXCEPT
                               !.write_buffer = Put(@, key, compressed),
                               !.write_buffer_current_size =
                                   @ + Len(compressed)]
                   IN IF B.write_buffer_current_size
                            >= S.config.write_buffer_size
                      THEN flush(B) ELSE B
              ELSE [S EXCEPT !.data_store = Put(@, key, compressed)]
    IN [S1 EXCEPT !.metadata_store = Put(@, key, metadata)]

insert_binary(S, key, data, t, items) ==
    after_operation(check_size_limit(InsertStore(S, key, data, t), items), t)

\* What compress_with_algo returns when the encoder reports an error
\* (compressed_size <= 0, ZSTD_isError): the message is logged and the input
\* comes back.
compress_with_algo_failed(data) == data

\* insert_binary, up to the point where the metadata is installed, in a call
\* whose encoder fails
InsertStoreEncodeFailed(S, key, data, t) ==
    LET tier == TIER_4
        algo == S.config.tier_configs[tier]
        compressed == compress_with_algo_failed(data)
        metadata == [access_count |-> 0, last_access |-> t, tier |-> tier,
                     algorithm |-> algo, original_size |-> Len(data),
                     compressed_size |-> Len(compressed)]
        S1 == IF S.config.lazy_persistence
              THEN LET B == [S EXCEPT
                               !.write_buffer = Put(@, key, compressed),
                               !.write_buffer_current_size =
                                   @ + Len(compressed)]
                   IN IF B.write_buffer_current_size
                            >= S.config.write_buffer_size
                      THEN flush(B) ELSE B
              ELSE [S EXCEPT !.data_store = Put(@, key, compressed)]
    IN [S1 EXCEPT !.metadata_store = Put(@, key, metadata)]

insert_binary_encode_failed(S, key, data, t, items) ==
    after_operation(
        check_size_limit(InsertStoreEncodeFailed(S, key, data, t), items), t)

\* GetLookup without the total_accesses_ increment
GetLookup_NoTotal(S, key, t) ==
    LET S1 == IF key \in DOMAIN S.write_buffer THEN flush(S) ELSE S
    IN IF key \notin DOMAIN S1.data_store
       THEN [S |-> S1, ret |-> NullOpt]
       ELSE LET S2 == IF key \in DOMAIN S1.metadata_store
                      THEN [S1 EXCEPT
                              !.metadata_store[key].access_count = @ + 1,
                              !.metadata_store[key].last_access = t]
                      ELSE S1
                compressed == S2.data_store[key]
                metadata == S2.metadata_store[key]
                decompressed ==
                    IF S.config.compression_enabled
                    THEN decompress(compressed, metadata.algorithm,
                                    metadata.original_size)
                    ELSE compressed
            IN [S |-> S2, ret |-> Some(decompressed)]

\* get_binary up to the decompression: the store, whether the key was
\* found, and the value to return
GetLookup(S, key, t) ==
    LET S1 == IF key \in DOMAIN S.write_buffer THEN flush(S) ELSE S
    IN IF key \notin DOMAIN S1.data_store
       THEN [S |-> S1, ret |-> NullOpt]
       ELSE LET S2 == IF key \in DOMAIN S1.metadata_store
                      THEN [S1 EXCEPT
                              !.metadata_store[key].access_count = @ + 1,
                              !.metadata_store[key].last_access = t,
                              !.total_accesses = @ + 1]
                      ELSE S1
                compressed == S2.data_store[key]
                metadata == S2.metadata_store[key]
                decompressed ==
                    IF S.config.compression_enabled
                    THEN decompress(compressed, metadata.algorithm,
                                    metadata.original_size)
                    ELSE compressed
            IN [S |-> S2, ret |-> Some(decompressed)]

\* get_binary: the store after the call and the value returned; the miss
\* returns before after_operation
get_binary(S, key, t) ==
    LET r == GetLookup(S, key, t)
    IN IF ~r.ret.has THEN r
       ELSE [S |-> after_operation(r.S, t), ret |-> r.ret]

\* remove without write_buffer_.erase(key)
remove_KeepsBuffer(S, key, t) ==
    LET found == key \in DOMAIN S.data_store
        S1 == [S EXCEPT !.data_store = Erase(@, key),
                        !.metadata_store = Erase(@, key)]
    IN [S |-> after_operation(S1, t), found |-> found, pre |-> S1]

\* remove: the store after the call and the flag returned (pre is the store
\* as after_operation finds it)
remove(S, key, t) ==
    LET found == key \in DOMAIN S.data_store
        S1 == [S EXCEPT !.data_store = Erase(@, key),
                        !.metadata_store = Erase(@, key),
                        !.write_buffer = Erase(@, key)]
    IN [S |-> after_operation(S1, t), found |-> found, pre |-> S1]

\* ------------------------------------------------- the object's lifetime
\* load_from_disk: every record of data.db is assigned into data_store_; a
\* value comes back as the value_len bytes that follow its length field
\* (a uint32_t, wide enough for every length formed here)
load_from_disk(S) ==
    IF ~S.data_db.exists THEN S
    ELSE LET records == S.data_db.records
         IN [S EXCEPT !.data_store =
                [k \in (DOMAIN S.data_store) \cup (DOMAIN records) |->
                    IF k \in DOMAIN records
                    THEN SubSeq(records[k], 1, Len(records[k]))
                    ELSE S.data_store[k]]]

\* load_metadata: the three counters, then every entry of metadata.db
load_metadata(S) ==
    IF ~S.metadata_db.exists THEN S
    ELSE LET entries == S.metadata_db.entries
         IN [S EXCEPT
                !.total_accesses = S.metadata_db.total_accesses,
                !.operations_since_reorg =
                    S.metadata_db.operations_since_reorg,
                !.last_reorg_time = S.metadata_db.last_reorg_time,
                !.metadata_store =
                    [k \in (DOMAIN S.metadata_store) \cup (DOMAIN entries) |->
                        IF k \in DOMAIN entries
                        THEN entries[k] ELSE S.metadata_store[k]]]

\* The members as the constructor's initializer list leaves them.
Constructed(S, cfg, t) ==
    [S EXCEPT !.config = cfg,
              !.data_store = EmptyMap,
              !.metadata_store = EmptyMap,
              !.write_buffer = EmptyMap,
              !.write_buffer_current_size = 0,
              !.total_accesses = 0,
              !.operations_since_reorg = 0,
              !.last_reorg_time = t]

\* DigestiveDatabase(name, config) on the directory whose files S holds
Constructor(S, cfg, t) == load_metadata(load_from_disk(Constructed(S, cfg, t)))

\* the destructor without its flush() call
Destructor_NoFlush(S) == save_metadata(save_to_disk(S))

\* ~DigestiveDatabase()
Destructor(S) == save_metadata(save_to_disk(flush(S)))

\* the destructor with save_metadata() ahead of save_to_disk()
DestructorStatement_MetadataFirst(S, pc) ==
    CASE pc = "Draining" ->
            [S |-> flush(S), did |-> "flush", pc |-> "Flushed"]
      [] pc = "Flushed" ->
            [S |-> save_metadata(S), did |-> "save_metadata",
             pc |-> "DataSaved"]
      [] OTHER ->
            [S |-> save_to_disk(S), did |-> "save_to_disk", pc |-> "Closed"]

\* ~DigestiveDatabase() one statement at a time: the statement at position
\* pc, the store after it and the position that follows
DestructorStatement(S, pc) ==
    CASE pc = "Draining" ->
            [S |-> flush(S), did |-> "flush", pc |-> "Flushed"]
      [] pc = "Flushed" ->
            [S |-> save_to_disk(S), did |-> "save_to_disk",
             pc |-> "DataSaved"]
      [] OTHER ->
            [S |-> save_metadata(S), did |-> "save_metadata",
             pc |-> "Closed"]

\* --------------------------------------------------------- the chunk store
\* Heat is a double in [0.0, 1.0]; it is kept here in ten-thousandths, and a
\* product is cut to a whole number of them.
HeatMax == 10000
HeatInit == 1000
HeatStep == 1000

calculate_tier_from_heat(heat) ==
    IF heat > 7000 THEN TIER_0
    ELSE IF heat > 4000 THEN TIER_1
    ELSE IF heat > 2000 THEN TIER_2
    ELSE IF heat > 1000 THEN TIER_3
    ELSE TIER_4

\* the compress_fn and decompress_fn the facade hands to the engine
ChunkCompress(S, chunk_data, tier) == compress(S, chunk_data, tier)

ChunkDecompress(S, data, tier, original_size) ==
    decompress(data, S.config.tier_configs[tier], original_size)

\* chunk_<NNN>.bin of key exists
ChunkFileExists(S, key, i) ==
    key \in DOMAIN S.chunk_files /\ i \in DOMAIN S.chunk_files[key]

\* std::vector<uint8_t> compressed(n) filled by chunk_file.read(.., n)
ReadBytes(bytes, n) ==
    [i \in 1..n |-> IF i <= Len(bytes) THEN bytes[i] ELSE 0]

\* chunk_metadata.db as ChunkingEngine::save_metadata writes it
ChunkingEngine_save_metadata(S) ==
    [S EXCEPT !.chunk_metadata_db =
                 [exists |-> TRUE, files |-> S.file_metadata]]

\* insert_chunked recording chunk_size as every chunk's original_size
ChunkOf_FullSize(S, data, i) ==
    LET C == S.config.chunk_size
        offset == i * C
        chunk_data_size == Min2(C, Len(data) - offset)
        chunk_data == SubSeq(data, offset + 1, offset + chunk_data_size)
        compressed == ChunkCompress(S, chunk_data, TIER_4)
    IN [chunk_data |-> chunk_data,
        file |-> compressed,
        meta |-> [chunk_id |-> i, heat |-> HeatInit,
                  original_size |-> C,
                  compressed_size |-> Len(compressed),
                  file_offset |-> 0, tier |-> TIER_4, last_access |-> 0]]

\* chunk i of data under chunk size C, as insert_chunked's loop builds it:
\* its bytes, its file and its metadata
ChunkOf(S, data, i) ==
    LET C == S.config.chunk_size
        offset == i * C
        chunk_data_size == Min2(C, Len(data) - offset)
        chunk_data == SubSeq(data, offset + 1, offset + chunk_data_size)
        compressed == ChunkCompress(S, chunk_data, TIER_4)
    IN [chunk_data |-> chunk_data,
        file |-> compressed,
        meta |-> [chunk_id |-> i, heat |-> HeatInit,
                  original_size |-> chunk_data_size,
                  compressed_size |-> Len(compressed),
                  file_offset |-> 0, tier |-> TIER_4, last_access |-> 0]]

insert_chunked(S, key, data) ==
    LET C == S.config.chunk_size
        num_chunks == (Len(data) + C - 1) \div C
        ids == 0..(num_chunks - 1)
        old_files == IF key \in DOMAIN S.chunk_files
                     THEN S.chunk_files[key] ELSE EmptyMap
        file_meta == [total_size |-> Len(data), chunk_size |-> C,
                      num_chunks |-> num_chunks,
                      chunks |-> [i \in ids |-> ChunkOf(S, data, i).meta]]
        S1 == [S EXCEPT
                 !.chunk_files =
                     Put(@, key,
                         [i \in (DOMAIN old_files) \cup ids |->
                             IF i \in ids THEN ChunkOf(S, data, i).file
                             ELSE old_files[i]]),
                 !.file_metadata = Put(@, key, file_meta)]
    IN ChunkingEngine_save_metadata(S1)

\* The loop of get_chunk_range from chunk i to chunk end: the engine after it
\* and the bytes appended to result.  A chunk without metadata or without a
\* readable file is skipped.
RECURSIVE ReadRange(_, _, _, _, _)
ReadRange(S, key, i, end, t) ==
    IF i > end THEN [S |-> S, result |-> <<>>]
    ELSE IF \/ i \notin DOMAIN S.file_metadata[key].chunks
            \/ ~ChunkFileExists(S, key, i)
         THEN ReadRange(S, key, i + 1, end, t)
         ELSE LET chunk_meta == S.file_metadata[key].chunks[i]
                  compressed == ReadBytes(S.chunk_files[key][i],
                                          chunk_meta.compressed_size)
                  decompressed ==
                      ChunkDecompress(S, compressed, chunk_meta.tier,
                                      chunk_meta.original_size)
                  S1 == [S EXCEPT
                           !.file_metadata[key].chunks[i].heat =
                               Min2(HeatMax, @ + HeatStep),
                           !.file_metadata[key].chunks[i].last_access = t]
                  rest == ReadRange(S1, key, i + 1, end, t)
              IN [S |-> rest.S, result |-> decompressed \o rest.result]

\* get_chunk_range moving every chunk it read to the tier of its new heat
get_chunk_range_Retiers(S, key, start_chunk, end_chunk, t) ==
    IF key \notin DOMAIN S.file_metadata THEN [S |-> S, ret |-> NullOpt]
    ELSE IF \/ start_chunk >= S.file_metadata[key].num_chunks
            \/ end_chunk >= S.file_metadata[key].num_chunks
         THEN [S |-> S, ret |-> NullOpt]
         ELSE LET r == ReadRange(S, key, start_chunk, end_chunk, t)
                  chunks == r.S.file_metadata[key].chunks
              IN [S |-> [r.S EXCEPT !.file_metadata[key].chunks =
                            [i \in DOMAIN chunks |->
                                IF start_chunk <= i /\ i <= end_chunk
                                THEN [chunks[i] EXCEPT !.tier =
                                         calculate_tier_from_heat(
                                             chunks[i].heat)]
                                ELSE chunks[i]]],
                  ret |-> Some(r.result)]

\* ChunkingEngine::get_chunk_range: the engine after the call and the value
\* returned
get_chunk_range(S, key, start_chunk, end_chunk, t) ==
    IF key \notin DOMAIN S.file_metadata THEN [S |-> S, ret |-> NullOpt]
    ELSE IF \/ start_chunk >= S.file_metadata[key].num_chunks
            \/ end_chunk >= S.file_metadata[key].num_chunks
         THEN [S |-> S, ret |-> NullOpt]
         ELSE LET r == ReadRange(S, key, start_chunk, end_chunk, t)
              IN [S |-> r.S, ret |-> Some(r.result)]

\* ChunkingEngine::get_full_file; for num_chunks = 0 the uint32_t
\* num_chunks - 1 wraps to the largest index, which is out of bounds
get_full_file(S, key, t) ==
    IF key \notin DOMAIN S.file_metadata THEN [S |-> S, ret |-> NullOpt]
    ELSE IF S.file_metadata[key].num_chunks = 0
         THEN [S |-> S, ret |-> NullOpt]
         ELSE get_chunk_range(S, key, 0,
                              S.file_metadata[key].num_chunks - 1, t)

\* update_chunk_heat without the std::min
update_chunk_heat_NoCap(S, key, chunk_id, heat_increment) ==
    IF key \notin DOMAIN S.file_metadata THEN S
    ELSE IF chunk_id \notin DOMAIN S.file_metadata[key].chunks THEN S
         ELSE [S EXCEPT !.file_metadata[key].chunks[chunk_id].heat =
                           @ + heat_increment]

\* ChunkingEngine::update_chunk_heat
update_chunk_heat(S, key, chunk_id, heat_increment) ==
    IF key \notin DOMAIN S.file_metadata THEN S
    ELSE IF chunk_id \notin DOMAIN S.file_metadata[key].chunks THEN S
         ELSE [S EXCEPT !.file_metadata[key].chunks[chunk_id].heat =
                           Min2(HeatMax, @ + heat_increment)]

decay_all_chunks(S, num, den) ==
    [S EXCEPT !.file_metadata =
        [key \in DOMAIN S.file_metadata |->
            [S.file_metadata[key] EXCEPT !.chunks =
                [i \in DOMAIN S.file_metadata[key].chunks |->
                    LET chunk_meta == S.file_metadata[key].chunks[i]
                        heat == (chunk_meta.heat * num) \div den
                    IN [chunk_meta EXCEPT
                          !.heat = heat,
                          !.tier = calculate_tier_from_heat(heat)]]]]]

\* ------------------------------------------------------- the hybrid facade
ChunkSize == 2              \* chunk_size, in bytes
MaxChunkedLen == 3          \* longest value routed to the chunk store
MaxHybridOps == 5           \* public calls in one hybrid session
ChunkThreshold == ChunkSize
ChunkIds == 0..((MaxChunkedLen + ChunkSize - 1) \div ChunkSize)

\* byte i of a test value is i
Pattern(n) == [i \in 1..n |-> i]
\* the longest inline value and every chunked one
HybridValues == {Pattern(n) : n \in (ChunkThreshold - 1)..MaxChunkedLen}

\* The fields the hybrid release adds to DbConfig, set as in the chunking
\* and heat-decay examples (exponential decay by 0.9 once a second).
HybridConfig(cfg) ==
    cfg @@ [enable_chunking |-> TRUE,
            chunking_threshold |-> ChunkThreshold,
            chunk_size |-> ChunkSize,
            enable_heat_decay |-> TRUE,
            heat_decay_strategy |-> "EXPONENTIAL",
            heat_decay_num |-> 9, heat_decay_den |-> 10,
            heat_decay_amount |-> 100,
            heat_decay_interval |-> 1]

HybridConfigs ==
    { HybridConfig(DbConfig(FALSE, SIZE_MAX, TRUE, DefaultTiers,
                            "EVERY_N_OPS", TRUE, SmallBuffer)),
      HybridConfig(DbConfig(FALSE, SIZE_MAX, TRUE, VideoTiers,
                            "MANUAL", FALSE, BigBuffer)) }

should_chunk_file(S, file_size) ==
    S.config.enable_chunking /\ file_size >= S.config.chunking_threshold

is_chunked(S, key) ==
    S.config.enable_chunking /\ key \in DOMAIN S.file_metadata

apply_heat_decay_to_entry(S, key, t) ==
    LET heat == S.node_heat[key]
        hours_since_access ==
            (t - S.metadata_store[key].last_access) \div 3600
    IN CASE S.config.heat_decay_strategy = "EXPONENTIAL" ->
              (heat * S.config.heat_decay_num) \div S.config.heat_decay_den
         [] S.config.heat_decay_strategy = "LINEAR" ->
              Max2(0, heat - S.config.heat_decay_amount)
         [] S.config.heat_decay_strategy = "TIME_BASED" ->
              HeatMax \div (1 + hours_since_access)
         [] OTHER -> heat

\* DigestiveDatabase::apply_heat_decay: inline metadata first, then chunks
apply_heat_decay(S, t) ==
    IF ~S.config.enable_heat_decay THEN S
    ELSE LET S1 == [S EXCEPT
                      !.node_heat =
                          [k \in DOMAIN S.node_heat |->
                              apply_heat_decay_to_entry(S, k, t)],
                      !.metadata_store =
                          [k \in DOMAIN S.metadata_store |->
                              [S.metadata_store[k] EXCEPT !.tier =
                                  calculate_tier_from_heat(
                                      apply_heat_decay_to_entry(S, k, t))]]]
             exponential == S.config.heat_decay_strategy = "EXPONENTIAL"
             S2 == IF S.config.enable_chunking
                   THEN decay_all_chunks(
                            S1,
                            IF exponential THEN S.config.heat_decay_num
                            ELSE 95,
                            IF exponential THEN S.config.heat_decay_den
                            ELSE 100)
                   ELSE S1
         IN [S2 EXCEPT !.last_heat_decay_time = t]

should_apply_heat_decay(S, t) ==
    /\ S.config.enable_heat_decay
    /\ (t - S.last_heat_decay_time) >= S.config.heat_decay_interval

check_heat_decay_trigger(S, t) ==
    IF ~should_apply_heat_decay(S, t) THEN S ELSE apply_heat_decay(S, t)

\* NodeMetadata::heat after an inline call took the store from S0 to S1:
\* entries created by the call (fresh) start at the constructor's 0.1,
\* entries erased by it are gone, the others keep their heat.
HeatSync(S0, S1, fresh) ==
    [S1 EXCEPT !.node_heat =
        [k \in DOMAIN S1.metadata_store |->
            IF k \in fresh \/ k \notin DOMAIN S0.node_heat
            THEN HeatInit ELSE S0.node_heat[k]]]

\* insert_binary with the chunking branch in front and the heat-decay check
\* at the end of after_operation
insert_binary_v3(S, key, data, t, items) ==
    IF S.config.enable_chunking /\ should_chunk_file(S, Len(data))
    THEN check_heat_decay_trigger(
             after_operation(insert_chunked(S, key, data), t), t)
    ELSE check_heat_decay_trigger(
             HeatSync(S, insert_binary(S, key, data, t, items), {key}), t)

\* get_binary with the chunking branch in front: a chunked key is read
\* whole and the call returns without after_operation
get_binary_v3(S, key, t) ==
    IF is_chunked(S, key) THEN get_full_file(S, key, t)
    ELSE LET r == get_binary(S, key, t)
         IN IF ~r.ret.has THEN r
            ELSE [S |-> check_heat_decay_trigger(r.S, t), ret |-> r.ret]

\* DigestiveDatabase::get_chunk_range
facade_get_chunk_range(S, key, start_chunk, end_chunk, t) ==
    IF ~S.config.enable_chunking THEN [S |-> S, ret |-> NullOpt]
    ELSE get_chunk_range(S, key, start_chunk, end_chunk, t)

\* remove, which the hybrid release leaves as it was, with the heat-decay
\* check at the end of after_operation
remove_v3(S, key, t) ==
    LET r == remove(S, key, t)
    IN [S |-> check_heat_decay_trigger(HeatSync(S, r.S, {}), t),
        found |-> r.found]

\* ------------------------------------------------------------ the session
\* The record of a public call: its arguments, what it returned, where the
\* key's value sat when the call began (in_data, in_buffer; stale when the
\* primary map held a different blob than the buffer), whether the footprint
\* was over the limit when checked, the keys evicted, and whether
\* after_operation ran a reorganization pass.
Call(op, key, data, ret, found, over, evicted, reorg) ==
    [op |-> op, key |-> key, data |-> data, ret |-> ret, found |-> found,
     in_data |-> key \in DOMAIN data_store,
     in_buffer |-> key \in DOMAIN write_buffer,
     stale |-> /\ key \in DOMAIN data_store
               /\ key \in DOMAIN write_buffer
               /\ data_store[key] # write_buffer[key],
     over |-> over, evicted |-> evicted, reorg |-> reorg]

\* no destructor has run yet
NoSnapshot == [taken |-> FALSE]

\* What the store holds when the destructor's body begins: for every key the
\* value a get would return, the metadata, the counters, and the keys whose
\* value is staged in the write buffer.
Snapshot(S) ==
    [taken |-> TRUE,
     plain |-> [k \in Keys |-> GetLookup(S, k, 0).ret],
     metadata_store |-> S.metadata_store,
     total_accesses |-> S.total_accesses,
     operations_since_reorg |-> S.operations_since_reorg,
     buffered |-> DOMAIN S.write_buffer]

\* A fresh directory: no image files, empty maps, counters at zero.
Init ==
    /\ config \in Configs
    /\ data_store = EmptyMap
    /\ metadata_store = EmptyMap
    /\ write_buffer = EmptyMap
    /\ write_buffer_current_size = 0
    /\ total_accesses = 0
    /\ operations_since_reorg = 0
    /\ now = 0
    /\ last_reorg_time = 0
    /\ data_db = NoFile
    /\ metadata_db = NoFile
    /\ ncalls = 0
    /\ last = Call("open", "", <<>>, NullOpt, FALSE, FALSE, {}, FALSE)
    /\ ideal = [k \in Keys |-> NullOpt]
    /\ evict_seen = FALSE
    /\ phase = "Open"
    /\ at_close = NoSnapshot
    /\ file_metadata = EmptyMap
    /\ chunk_files = EmptyMap
    /\ chunk_metadata_db = NoFile
    /\ node_heat = EmptyMap
    /\ last_heat_decay_time = 0
    /\ chunked_as = [k \in Keys |-> NullOpt]

\* after_operation on S runs a reorganization pass
HookFires(S, t) ==
    should_reorganize([S EXCEPT !.operations_since_reorg = @ + 1], t)

Insert(key, data) ==
    /\ ncalls < MaxOps
    /\ phase # "Closed"
    /\ LET S1 == InsertStore(Cur, key, data, now)
       IN \E items \in SortedItems(S1) :
            LET S2 == check_size_limit(S1, items)
                evicted == (DOMAIN S1.metadata_store)
                               \ (DOMAIN S2.metadata_store)
            IN /\ Install(insert_binary(Cur, key, data, now, items))
               /\ last' = Call("insert", key, data, NullOpt, FALSE,
                               SizeLimitExceeded(S1), evicted,
                               HookFires(S2, now))
               /\ evict_seen' = (evict_seen \/ evicted # {})
    /\ ideal' = [ideal EXCEPT ![key] = Some(data)]
    /\ ncalls' = ncalls + 1
    /\ UNCHANGED <<now, life_vars, hybrid_vars>>

\* an insert during which the built-in encoder of tier 4 reports an error
\* (allocation failure, input beyond the encoder's limit)
InsertEncodeFailed(key, data) ==
    /\ ncalls < MaxOps
    /\ phase # "Closed"
    /\ config.compression_enabled
    /\ config.tier_configs[TIER_4] # "NONE"
    /\ ~config.compress_fn[TIER_4]
    /\ LET S1 == InsertStoreEncodeFailed(Cur, key, data, now)
       IN \E items \in SortedItems(S1) :
            LET S2 == check_size_limit(S1, items)
                evicted == (DOMAIN S1.metadata_store)
                               \ (DOMAIN S2.metadata_store)
            IN /\ Install(insert_binary_encode_failed(Cur, key, data, now,
                                                      items))
               /\ last' = Call("insert_encode_failed", key, data, NullOpt,
                               FALSE, SizeLimitExceeded(S1), evicted,
                               HookFires(S2, now))
               /\ evict_seen' = (evict_seen \/ evicted # {})
    /\ ideal' = [ideal EXCEPT ![key] = Some(data)]
    /\ ncalls' = ncalls + 1
    /\ UNCHANGED <<now, life_vars, hybrid_vars>>

Get(key) ==
    /\ ncalls < MaxOps
    /\ phase # "Closed"
    /\ LET r == get_binary(Cur, key, now)
           pre == GetLookup(Cur, key, now)
       IN /\ Install(r.S)
          /\ last' = Call("get", key, <<>>, r.ret, r.ret.has, FALSE, {},
                          pre.ret.has /\ HookFires(pre.S, now))
    /\ ncalls' = ncalls + 1
    /\ UNCHANGED <<now, ideal, evict_seen, life_vars, hybrid_vars>>

Remove(key) ==
    /\ ncalls < MaxOps
    /\ phase # "Closed"
    /\ LET r == remove(Cur, key, now)
       IN /\ Install(r.S)
          /\ last' = Call("remove", key, <<>>, NullOpt, r.found, FALSE, {},
                          HookFires(r.pre, now))
    /\ ideal' = [ideal EXCEPT ![key] = NullOpt]
    /\ ncalls' = ncalls + 1
    /\ UNCHANGED <<now, evict_seen, life_vars, hybrid_vars>>

Flush ==
    /\ ncalls < MaxOps
    /\ phase # "Closed"
    /\ Install(flush(Cur))
    /\ last' = Call("flush", "", <<>>, NullOpt, FALSE, FALSE, {}, FALSE)
    /\ ncalls' = ncalls + 1
    /\ UNCHANGED <<now, ideal, evict_seen, life_vars, hybrid_vars>>

Reorganize ==
    /\ ncalls < MaxOps
    /\ phase # "Closed"
    /\ Install(reorganize(Cur, now))
    /\ last' = Call("reorganize", "", <<>>, NullOpt, FALSE, FALSE, {}, TRUE)
    /\ ncalls' = ncalls + 1
    /\ UNCHANGED <<now, ideal, evict_seen, life_vars, hybrid_vars>>

\* Control enters the destructor.
DestructorEnter ==
    /\ phase = "Open"
    /\ phase' = "Draining"
    /\ UNCHANGED <<config, data_store, metadata_store, write_buffer,
                   write_buffer_current_size, total_accesses,
                   operations_since_reorg, last_reorg_time, data_db,
                   metadata_db, now, ncalls, last, ideal, evict_seen,
                   at_close, hybrid_vars>>

\* The destructor's body runs and the members are destroyed; the files stay.
DestructorBody ==
    /\ phase = "Draining"
    /\ Install(Constructed(Destructor(Cur), config, 0))
    /\ phase' = "Closed"
    /\ at_close' = Snapshot(Cur)
    /\ last' = Call("close", "", <<>>, NullOpt, FALSE, FALSE, {}, FALSE)
    /\ UNCHANGED <<now, ncalls, ideal, evict_seen, hybrid_vars>>

\* The destructor executes its next statement; after the last one the
\* members are destroyed and the files stay.
DestructorStep ==
    /\ phase \in {"Draining", "Flushed", "DataSaved"}
    /\ LET r == DestructorStatement(Cur, phase)
       IN /\ Install(IF r.pc = "Closed"
                     THEN Constructed(r.S, config, 0) ELSE r.S)
          /\ phase' = r.pc
          /\ last' = Call(r.did, "", <<>>, NullOpt, FALSE, FALSE, {}, FALSE)
    /\ at_close' = IF phase = "Draining" THEN Snapshot(Cur) ELSE at_close
    /\ UNCHANGED <<now, ncalls, ideal, evict_seen, hybrid_vars>>

\* A new object is constructed on the same directory with the same
\* configuration.
Reopen ==
    /\ phase = "Closed"
    /\ ncalls < MaxOps
    /\ Install(Constructor(Cur, config, now))
    /\ phase' = "Open"
    /\ last' = Call("reopen", "", <<>>, NullOpt, FALSE, FALSE, {}, FALSE)
    /\ ncalls' = ncalls + 1
    /\ UNCHANGED <<now, ideal, evict_seen, at_close, hybrid_vars>>

\* The hybrid facade's members and files as one record.
HCur ==
    Cur @@ [file_metadata |-> file_metadata, chunk_files |-> chunk_files,
            chunk_metadata_db |-> chunk_metadata_db,
            node_heat |-> node_heat,
            last_heat_decay_time |-> last_heat_decay_time]

HInstall(S) ==
    /\ Install(S)
    /\ file_metadata' = S.file_metadata
    /\ chunk_files' = S.chunk_files
    /\ chunk_metadata_db' = S.chunk_metadata_db
    /\ node_heat' = S.node_heat
    /\ last_heat_decay_time' = S.last_heat_decay_time

\* the record of a hybrid call: Call's fields and the chunk range asked for
HCall(op, key, data, ret, found, start_chunk, end_chunk) ==
    Call(op, key, data, ret, found, FALSE, {}, FALSE)
        @@ [start_chunk |-> start_chunk, end_chunk |-> end_chunk,
            was_chunked |-> key \in DOMAIN file_metadata]

HInsert(key, data) ==
    /\ ncalls < MaxHybridOps
    /\ \E items \in SortedItems(InsertStore(HCur, key, data, now)) :
          HInstall(insert_binary_v3(HCur, key, data, now, items))
    /\ last' = HCall("insert", key, data, NullOpt, FALSE, 0, 0)
    /\ chunked_as' = IF should_chunk_file(HCur, Len(data))
                     THEN [chunked_as EXCEPT ![key] = Some(data)]
                     ELSE chunked_as
    /\ ideal' = [ideal EXCEPT ![key] = Some(data)]
    /\ ncalls' = ncalls + 1
    /\ UNCHANGED <<now, evict_seen, life_vars>>

HGet(key) ==
    /\ ncalls < MaxHybridOps
    /\ LET r == get_binary_v3(HCur, key, now)
       IN /\ HInstall(r.S)
          /\ last' = HCall("get", key, <<>>, r.ret, r.ret.has, 0, 0)
    /\ ncalls' = ncalls + 1
    /\ UNCHANGED <<now, ideal, evict_seen, life_vars, chunked_as>>

HGetRange(key, start_chunk, end_chunk) ==
    /\ ncalls < MaxHybridOps
    /\ LET r == facade_get_chunk_range(HCur, key, start_chunk, end_chunk, now)
       IN /\ HInstall(r.S)
          /\ last' = HCall("get_range", key, <<>>, r.ret, r.ret.has,
                           start_chunk, end_chunk)
    /\ ncalls' = ncalls + 1
    /\ UNCHANGED <<now, ideal, evict_seen, life_vars, chunked_as>>

HRemove(key) ==
    /\ ncalls < MaxHybridOps
    /\ LET r == remove_v3(HCur, key, now)
       IN /\ HInstall(r.S)
          /\ last' = HCall("remove", key, <<>>, NullOpt, r.found, 0, 0)
    /\ ideal' = [ideal EXCEPT ![key] = NullOpt]
    /\ ncalls' = ncalls + 1
    /\ UNCHANGED <<now, evict_seen, life_vars, chunked_as>>

\* the public apply_heat_decay()
HDecay ==
    /\ ncalls < MaxHybridOps
    /\ HInstall(apply_heat_decay(HCur, now))
    /\ last' = HCall("decay", "", <<>>, NullOpt, FALSE, 0, 0)
    /\ ncalls' = ncalls + 1
    /\ UNCHANGED <<now, ideal, evict_seen, life_vars, chunked_as>>

\* the caller lets a second pass; the wait is an event of the session
HWait ==
    /\ ncalls < MaxHybridOps
    /\ now < MaxTime
    /\ now' = now + 1
    /\ last' = HCall("wait", "", <<>>, NullOpt, FALSE, 0, 0)
    /\ ncalls' = ncalls + 1
    /\ UNCHANGED <<config, data_store, metadata_store, write_buffer,
                   write_buffer_current_size, total_accesses,
                   operations_since_reorg, last_reorg_time, data_db,
                   metadata_db, ideal, evict_seen, life_vars, hybrid_vars>>

\* the clock advances between calls
Tick ==
    /\ now < MaxTime
    /\ now' = now + 1
    /\ UNCHANGED <<config, data_store, metadata_store, write_buffer,
                   write_buffer_current_size, total_accesses,
                   operations_since_reorg, last_reorg_time, data_db,
                   metadata_db, ncalls, last, ideal, evict_seen, life_vars,
                   hybrid_vars>>

Next ==
    \/ \E key \in Keys, data \in Plaintexts : Insert(key, data)
    \/ \E key \in Keys : Get(key)
    \/ \E key \in Keys : Remove(key)
    \/ Flush
    \/ Reorganize
    \/ Tick

Spec == Init /\ [][Next]_vars

\* Sessions in which the object is destroyed and a new one is constructed on
\* the same directory.
NextLife ==
    \/ \E key \in Keys, data \in Plaintexts : Insert(key, data)
    \/ \E key \in Keys : Get(key)
    \/ \E key \in Keys : Remove(key)
    \/ Flush
    \/ Reorganize
    \/ Tick
    \/ DestructorEnter
    \/ DestructorBody
    \/ Reopen

\* the configurations of these sessions: every deletion policy, codec setup
\* and persistence mode, under the two strategies counted in operations
LifeConfigs ==
    {c \in Configs : c.reorg_strategy \in {"MANUAL", "EVERY_N_OPS"}}

InitLife == Init /\ config \in LifeConfigs

SpecLife == InitLife /\ [][NextLife]_vars

\* Sessions of one caller that end in a shutdown followed statement by
\* statement: public calls come only while the object is open.
NextShutdown ==
    \/ phase = "Open" /\ \E key \in Keys, data \in Plaintexts : Insert(key, data)
    \/ phase = "Open" /\ \E key \in Keys : Get(key)
    \/ phase = "Open" /\ \E key \in Keys : Remove(key)
    \/ phase = "Open" /\ Flush
    \/ phase = "Open" /\ Reorganize
    \/ phase = "Open" /\ Tick
    \/ DestructorEnter
    \/ DestructorStep
    \/ Reopen

SpecShutdown == InitLife /\ [][NextShutdown]_vars

\* Sessions in which an encoder may fail during an insert.
NextEncode ==
    \/ \E key \in Keys, data \in Plaintexts : Insert(key, data)
    \/ \E key \in Keys, data \in Plaintexts : InsertEncodeFailed(key, data)
    \/ \E key \in Keys : Get(key)
    \/ \E key \in Keys : Remove(key)
    \/ Flush
    \/ Reorganize
    \/ Tick

SpecEncode == Init /\ [][NextEncode]_vars

\* Sessions that begin on a store worked for a while under MANUAL: both keys
\* hold a one-byte value inserted at tier 4 and never re-encoded, each has
\* been read some number of times, and further reads went to keys removed
\* since.  No pass has run yet.
ShareCounts == {0, 1, 2, 7, 30}
RemovedReads == {0, 70}

ShareConfigs ==
    { DbConfig(FALSE, SIZE_MAX, TRUE, DefaultTiers, "MANUAL", FALSE, BigBuffer),
      DbConfig(FALSE, SIZE_MAX, TRUE, VideoTiers, "MANUAL", TRUE, BigBuffer) }

InitShare ==
    /\ config \in ShareConfigs
    /\ \E count \in [Keys -> ShareCounts], removed \in RemovedReads :
          /\ metadata_store =
                [k \in Keys |->
                    [access_count |-> count[k], last_access |-> 0,
                     tier |-> TIER_4,
                     algorithm |-> config.tier_configs[TIER_4],
                     original_size |-> 1,
                     compressed_size |->
                         Len(compress_with_algo(<<1>>,
                                                config.tier_configs[TIER_4]))]]
          /\ total_accesses = SumOver(count, Keys) + removed
          /\ operations_since_reorg =
                Cardinality(Keys) + SumOver(count, Keys) + removed
                    + (IF removed > 0 THEN 2 ELSE 0)
    /\ data_store =
          [k \in Keys |->
              compress_with_algo(<<1>>, config.tier_configs[TIER_4])]
    /\ write_buffer = EmptyMap
    /\ write_buffer_current_size = 0
    /\ now = 0
    /\ last_reorg_time = 0
    /\ data_db = NoFile
    /\ metadata_db = NoFile
    /\ ncalls = 0
    /\ last = Call("open", "", <<>>, NullOpt, FALSE, FALSE, {}, FALSE)
    /\ ideal = [k \in Keys |-> Some(<<1>>)]
    /\ evict_seen = FALSE
    /\ phase = "Open"
    /\ at_close = NoSnapshot
    /\ file_metadata = EmptyMap
    /\ chunk_files = EmptyMap
    /\ chunk_metadata_db = NoFile
    /\ node_heat = EmptyMap
    /\ last_heat_decay_time = 0
    /\ chunked_as = [k \in Keys |-> NullOpt]

NextShare ==
    \/ \E key \in Keys : Get(key)
    \/ \E key \in Keys : Remove(key)
    \/ Reorganize

SpecShare == InitShare /\ [][NextShare]_vars

\* Sessions of a store whose tiers carry custom codec hooks: on tier 4 only
\* (the documented setup) or on every tier.
WithHooks(cfg, tiers) ==
    [cfg EXCEPT !.compress_fn = [t \in CompressionTier |-> t \in tiers],
                !.decompress_fn = [t \in CompressionTier |-> t \in tiers]]

HookConfigs ==
    { WithHooks(cfg, tiers) :
        cfg \in { DbConfig(FALSE, SIZE_MAX, TRUE, DefaultTiers, "MANUAL",
                           FALSE, BigBuffer),
                  DbConfig(FALSE, SIZE_MAX, TRUE, DefaultTiers, "EVERY_N_OPS",
                           TRUE, SmallBuffer) },
        tiers \in { {TIER_4}, CompressionTier } }

InitHooks ==
    /\ config \in HookConfigs
    /\ data_store = EmptyMap
    /\ metadata_store = EmptyMap
    /\ write_buffer = EmptyMap
    /\ write_buffer_current_size = 0
    /\ total_accesses = 0
    /\ operations_since_reorg = 0
    /\ now = 0
    /\ last_reorg_time = 0
    /\ data_db = NoFile
    /\ metadata_db = NoFile
    /\ ncalls = 0
    /\ last = Call("open", "", <<>>, NullOpt, FALSE, FALSE, {}, FALSE)
    /\ ideal = [k \in Keys |-> NullOpt]
    /\ evict_seen = FALSE
    /\ phase = "Open"
    /\ at_close = NoSnapshot
    /\ file_metadata = EmptyMap
    /\ chunk_files = EmptyMap
    /\ chunk_metadata_db = NoFile
    /\ node_heat = EmptyMap
    /\ last_heat_decay_time = 0
    /\ chunked_as = [k \in Keys |-> NullOpt]

SpecHooks == InitHooks /\ [][Next]_vars

\* Sessions of the hybrid facade with chunking and heat decay enabled, on a
\* fresh directory.
InitHybrid ==
    /\ config \in HybridConfigs
    /\ data_store = EmptyMap
    /\ metadata_store = EmptyMap
    /\ write_buffer = EmptyMap
    /\ write_buffer_current_size = 0
    /\ total_accesses = 0
    /\ operations_since_reorg = 0
    /\ now = 0
    /\ last_reorg_time = 0
    /\ data_db = NoFile
    /\ metadata_db = NoFile
    /\ ncalls = 0
    /\ ideal = [k \in Keys |-> NullOpt]
    /\ evict_seen = FALSE
    /\ phase = "Open"
    /\ at_close = NoSnapshot
    /\ file_metadata = EmptyMap
    /\ chunk_files = EmptyMap
    /\ chunk_metadata_db = NoFile
    /\ node_heat = EmptyMap
    /\ last_heat_decay_time = 0
    /\ chunked_as = [k \in Keys |-> NullOpt]
    /\ last = HCall("open", "", <<>>, NullOpt, FALSE, 0, 0)

NextHybrid ==
    \/ \E key \in Keys, data \in HybridValues : HInsert(key, data)
    \/ \E key \in Keys : HGet(key)
    \/ \E key \in Keys, start_chunk \in ChunkIds, end_chunk \in ChunkIds :
          HGetRange(key, start_chunk, end_chunk)
    \/ \E key \in Keys : HRemove(key)
    \/ HDecay
    \/ HWait

SpecHybrid == InitHybrid /\ [][NextHybrid]_vars


\* Sessions of the hybrid facade under each heat-decay strategy, with the
\* engine's update_chunk_heat among the calls.
MaxHeatOps == 3             \* public calls in one such session

\* heat_decay_strategy, heat_decay_factor (as num/den) and heat_decay_amount
DecaySettings ==
    { <<"NONE", 9, 10, 100>>,
      <<"EXPONENTIAL", 0, 10, 100>>,
      <<"EXPONENTIAL", 9, 10, 100>>,
      <<"EXPONENTIAL", 10, 10, 100>>,
      <<"LINEAR", 9, 10, 600>>,
      <<"TIME_BASED", 9, 10, 100>> }

HeatConfigs ==
    { [HybridConfig(DbConfig(FALSE, SIZE_MAX, TRUE, DefaultTiers,
                             "MANUAL", FALSE, BigBuffer))
          EXCEPT !.heat_decay_strategy = d[1],
                 !.heat_decay_num = d[2],
                 !.heat_decay_den = d[3],
                 !.heat_decay_amount = d[4]] : d \in DecaySettings }

\* the increments update_chunk_heat is called with
HeatIncrements == {0, HeatStep, HeatMax}

InitHeat ==
    /\ config \in HeatConfigs
    /\ data_store = EmptyMap
    /\ metadata_store = EmptyMap
    /\ write_buffer = EmptyMap
    /\ write_buffer_current_size = 0
    /\ total_accesses = 0
    /\ operations_since_reorg = 0
    /\ now = 0
    /\ last_reorg_time = 0
    /\ data_db = NoFile
    /\ metadata_db = NoFile
    /\ ncalls = 0
    /\ ideal = [k \in Keys |-> NullOpt]
    /\ evict_seen = FALSE
    /\ phase = "Open"
    /\ at_close = NoSnapshot
    /\ file_metadata = EmptyMap
    /\ chunk_files = EmptyMap
    /\ chunk_metadata_db = NoFile
    /\ node_heat = EmptyMap
    /\ last_heat_decay_time = 0
    /\ chunked_as = [k \in Keys |-> NullOpt]
    /\ last = HCall("open", "", <<>>, NullOpt, FALSE, 0, 0)

HUpdateChunkHeat(key, chunk_id, heat_increment) ==
    /\ ncalls < MaxHybridOps
    /\ HInstall(update_chunk_heat(HCur, key, chunk_id, heat_increment))
    /\ last' = HCall("update_chunk_heat", key, <<>>, NullOpt, FALSE,
                     chunk_id, chunk_id)
    /\ ncalls' = ncalls + 1
    /\ UNCHANGED <<now, ideal, evict_seen, life_vars, chunked_as>>

NextHeat ==
    \/ ncalls < MaxHeatOps
          /\ \E key \in Keys, data \in HybridValues : HInsert(key, data)
    \/ ncalls < MaxHeatOps /\ \E key \in Keys : HGet(key)
    \/ ncalls < MaxHeatOps
          /\ \E key \in Keys, start_chunk \in ChunkIds,
                end_chunk \in ChunkIds :
                HGetRange(key, start_chunk, end_chunk)
    \/ ncalls < MaxHeatOps
          /\ \E key \in Keys, chunk_id \in ChunkIds,
                heat_increment \in HeatIncrements :
                HUpdateChunkHeat(key, chunk_id, heat_increment)
    \/ ncalls < MaxHeatOps /\ \E key \in Keys : HRemove(key)
    \/ ncalls < MaxHeatOps /\ HDecay
    \/ ncalls < MaxHeatOps /\ HWait

SpecHeat == InitHeat /\ [][NextHeat]_vars


\* ================================================================== claims
\* a step that is one public call
CallStep == ncalls' = ncalls + 1

\* C1: in every configuration, insert(k, b) followed immediately by get(k)
\* returns exactly b.
C1_InsertThenGet ==
    [][(CallStep /\ last.op = "insert" /\ last'.op = "get"
            /\ last'.key = last.key)
        => last'.ret = Some(last.data)]_vars

\* C2: as long as eviction has not been triggered, every get(k) returns what
\* a plain map would: the bytes of the latest insert(k) not followed by
\* remove(k), absent if there is none; a value staged in the write buffer
\* shadows an older value of the key in the primary map.
C2_RefinesPlainMap ==
    (last.op = "get" /\ ~evict_seen) => last.ret = ideal[last.key]

\* a get found the key staged in the buffer over a different, older blob in
\* the primary map, and returned the staged value
C2_Witness ==
    /\ last.op = "get"
    /\ ~evict_seen
    /\ last.stale
    /\ last.ret.has
    /\ last.ret = ideal[last.key]

\* C3: a get(k) that returns data adds exactly one to metadata[k].access_count
\* and to total_accesses and does not lower metadata[k].last_access; it
\* changes no other key's access_count; a get that misses changes no
\* access_count and not total_accesses.
C3_GetAccounting ==
    [][(CallStep /\ last'.op = "get") =>
        LET k == last'.key IN
        /\ DOMAIN metadata_store' = DOMAIN metadata_store
        /\ \A j \in (DOMAIN metadata_store) \ {k} :
              metadata_store'[j].access_count = metadata_store[j].access_count
        /\ IF last'.ret.has
           THEN /\ k \in DOMAIN metadata_store
                /\ metadata_store'[k].access_count
                      = metadata_store[k].access_count + 1
                /\ metadata_store'[k].last_access
                      >= metadata_store[k].last_access
                /\ total_accesses' = total_accesses + 1
           ELSE /\ total_accesses' = total_accesses
                /\ k \in DOMAIN metadata_store =>
                      metadata_store'[k].access_count
                          = metadata_store[k].access_count]_vars

\* a hit on a key while another key is stored
C3_Witness ==
    /\ last.op = "get"
    /\ last.ret.has
    /\ metadata_store[last.key].access_count >= 1
    /\ total_accesses >= 1
    /\ Cardinality(DOMAIN metadata_store) >= 2

\* C4: remove(k) returns true exactly when k had a mapping just before the
\* call, in the primary map or only in the write buffer; afterwards k is in
\* none of the primary map, the metadata map and the write buffer.
C4_RemoveReportsMapping ==
    [][(CallStep /\ last'.op = "remove") =>
        LET k == last'.key IN
        /\ last'.found = (k \in DOMAIN data_store \/ k \in DOMAIN write_buffer)
        /\ k \notin DOMAIN data_store'
        /\ k \notin DOMAIN metadata_store'
        /\ k \notin DOMAIN write_buffer']_vars

\* C5: flush() moves every write-buffer entry into the primary map, leaves
\* the buffer empty with its byte counter at 0 and changes no metadata entry
\* and no operation counter (so that a second flush changes nothing).
C5_FlushEmptiesBuffer ==
    [][(CallStep /\ last'.op = "flush") =>
        /\ data_store' =
              [k \in (DOMAIN data_store) \cup (DOMAIN write_buffer) |->
                  IF k \in DOMAIN write_buffer
                  THEN write_buffer[k] ELSE data_store[k]]
        /\ write_buffer' = EmptyMap
        /\ write_buffer_current_size' = 0
        /\ metadata_store' = metadata_store
        /\ total_accesses' = total_accesses
        /\ operations_since_reorg' = operations_since_reorg]_vars


\* the lexicographic order of the keys
KeyRank(k) == IF k = "a" THEN 1 ELSE IF k = "b" THEN 2 ELSE 3

\* j comes before k in the order: ascending access_count, ties by ascending
\* last_access, then by key
Colder(md, j, k) ==
    \/ md[j].access_count < md[k].access_count
    \/ /\ md[j].access_count = md[k].access_count
       /\ \/ md[j].last_access < md[k].last_access
          \/ /\ md[j].last_access = md[k].last_access
             /\ KeyRank(j) < KeyRank(k)

\* the first c keys of md in that order
Coldest(md, c) ==
    {k \in DOMAIN md : Cardinality({j \in DOMAIN md : Colder(md, j, k)}) < c}

\* C6: an insert that finds the footprint above max_size_bytes with
\* allow_deletion removes exactly the first max(1, n div 10) keys in the order
\* access_count, last_access, key, where n is the number of keys with
\* metadata at that moment; all other keys remain.
C6_EvictsColdestInOrder ==
    [][(CallStep /\ last'.op = "insert" /\ last'.over
            /\ config.allow_deletion) =>
        LET md == InsertStore(Cur, last'.key, last'.data, now).metadata_store
            n == Cardinality(DOMAIN md)
        IN /\ last'.evicted = Coldest(md, Max2(1, n \div 10))
           /\ DOMAIN metadata_store' = (DOMAIN md) \ last'.evicted]_vars

\* k has a value or a metadata entry
Present(S, k) ==
    \/ k \in DOMAIN S.data_store
    \/ k \in DOMAIN S.write_buffer
    \/ k \in DOMAIN S.metadata_store

HasValue(S, k) == k \in (DOMAIN S.data_store) \cup (DOMAIN S.write_buffer)

\* C7: a key loses its value or its metadata, other than by remove(k), only
\* during an insert with allow_deletion true and the footprint above
\* max_size_bytes; with allow_deletion false no insert, get, flush or
\* reorganize removes a key, even above the limit.
C7_DeletionOnlyByEviction ==
    [][\A k \in Keys :
        (\/ HasValue(Cur, k) /\ ~(k \in (DOMAIN data_store')
                                        \cup (DOMAIN write_buffer'))
         \/ k \in DOMAIN metadata_store /\ k \notin DOMAIN metadata_store')
        => \/ last'.op = "remove" /\ last'.key = k
           \/ /\ last'.op = "insert"
              /\ config.allow_deletion
              /\ get_size_on_disk(Cur) > config.max_size_bytes]_vars

\* an insert above the limit with deletion disabled kept both stored keys
C7_Witness ==
    /\ last.op = "insert"
    /\ last.over
    /\ ~config.allow_deletion
    /\ last.evicted = {}
    /\ \A k \in Keys : HasValue(Cur, k) /\ k \in DOMAIN metadata_store

\* C8: under MANUAL no insert, get or remove runs a reorganization pass: the
\* call re-encodes no stored blob, changes no tier or algorithm and never
\* resets ops_since_reorg.
C8_ManualNeverReorganizes ==
    [][(CallStep /\ config.reorg_strategy = "MANUAL"
            /\ last'.op \in {"insert", "get", "remove"}) =>
        /\ ~last'.reorg
        /\ operations_since_reorg' >= operations_since_reorg
        /\ last_reorg_time' = last_reorg_time
        /\ \A k \in (DOMAIN data_store) \cap (DOMAIN data_store') :
              (k \notin DOMAIN write_buffer
                    /\ ~(last'.op = "insert" /\ last'.key = k))
              => data_store'[k] = data_store[k]
        /\ \A k \in (DOMAIN metadata_store) \cap (DOMAIN metadata_store') :
              ~(last'.op = "insert" /\ last'.key = k)
              => /\ metadata_store'[k].tier = metadata_store[k].tier
                 /\ metadata_store'[k].algorithm = metadata_store[k].algorithm
                 /\ metadata_store'[k].compressed_size
                        = metadata_store[k].compressed_size]_vars

\* under MANUAL the counter has passed the operation threshold while a key
\* that a pass would move to another tier still sits in TIER_4
C8_Witness ==
    /\ config.reorg_strategy = "MANUAL"
    /\ last.op \in {"insert", "get", "remove"}
    /\ operations_since_reorg > config.reorg_operation_threshold
    /\ \E k \in (DOMAIN metadata_store) \cap (DOMAIN data_store) :
          /\ metadata_store[k].tier = TIER_4
          /\ calculate_tier(Cur, metadata_store[k].access_count) # TIER_4

\* C9: under EVERY_N_OPS with threshold N >= 1, a reorganization pass runs
\* during exactly those insert/get/remove calls whose post-op increment makes
\* ops_since_reorg reach N, before the call returns, and after every call
\* ops_since_reorg < N.
C9_EveryNOps ==
    [][(config.reorg_strategy = "EVERY_N_OPS"
            /\ config.reorg_operation_threshold >= 1
            /\ operations_since_reorg < config.reorg_operation_threshold) =>
        /\ operations_since_reorg' < config.reorg_operation_threshold
        /\ (CallStep /\ last'.op \in {"insert", "get", "remove"}) =>
              LET hooked == ~(last'.op = "get" /\ ~last'.ret.has)
                  reaches == hooked /\ operations_since_reorg + 1
                                         = config.reorg_operation_threshold
              IN /\ last'.reorg <=> reaches
                 /\ reaches => /\ operations_since_reorg' = 0
                               /\ last_reorg_time' = now
                               /\ metadata_db'.exists /\ data_db'.exists
                               /\ data_db'.records = data_store'
                 /\ ~reaches => /\ operations_since_reorg'
                                     = operations_since_reorg
                                         + (IF hooked THEN 1 ELSE 0)
                                /\ last_reorg_time' = last_reorg_time]_vars

\* the counter is back at 0 after a call whose increment made it reach N
C9_Witness ==
    /\ config.reorg_strategy = "EVERY_N_OPS"
    /\ last.op \in {"insert", "get", "remove"}
    /\ last.reorg
    /\ operations_since_reorg = 0
    /\ metadata_db.exists
    /\ ncalls >= config.reorg_operation_threshold

\* C10: every insert, get (hit or miss) and remove call runs the post-op hook
\* exactly once: ops_since_reorg afterwards is its value before plus one, or
\* 0 when the hook ran a reorganization.
C10_HookOncePerCall ==
    [][(CallStep /\ last'.op \in {"insert", "get", "remove"}) =>
        \/ operations_since_reorg' = operations_since_reorg + 1
        \/ last'.reorg /\ operations_since_reorg' = 0]_vars

C12_NotOpenOutsideOpen ==
    [][/\ phase' # phase =>
            <<phase, phase'>> \in {<<"Open", "Draining">>,
                                   <<"Draining", "Closed">>,
                                   <<"Closed", "Open">>}
       /\ (CallStep /\ phase # "Open"
                /\ last'.op \in {"insert", "get", "remove", "flush",
                                  "reorganize"}) =>
            /\ ~last'.ret.has
            /\ ~last'.found
            /\ UNCHANGED <<data_store, metadata_store, write_buffer,
                           write_buffer_current_size, total_accesses,
                           operations_since_reorg, last_reorg_time,
                           data_db, metadata_db>>]_vars

\* the chunk index, the chunk files and the inline store
store_vars == <<data_store, metadata_store, write_buffer,
                write_buffer_current_size, total_accesses,
                operations_since_reorg, last_reorg_time, data_db,
                metadata_db, file_metadata, chunk_files, chunk_metadata_db,
                node_heat>>

\* k has a value in the inline store
InlineHas(S, k) == k \in (DOMAIN S.data_store) \cup (DOMAIN S.write_buffer)

\* C13: after any sequence of inserts and removes with chunking enabled
\* (including re-inserting an existing key with a value on the other side of
\* chunking_threshold), no key is present in both the inline store and the
\* chunk index; an insert that targets a key currently living in the other
\* namespace is rejected (KeyKindMismatch) and changes nothing.
C13_NamespacesDisjoint ==
    [][/\ \A k \in Keys :
             ~(/\ k \in (DOMAIN data_store') \cup (DOMAIN write_buffer')
               /\ k \in DOMAIN file_metadata')
       /\ (CallStep /\ last'.op = "insert"
              /\ IF should_chunk_file(HCur, Len(last'.data))
                 THEN InlineHas(HCur, last'.key)
                 ELSE last'.key \in DOMAIN file_metadata)
            => UNCHANGED store_vars]_vars

\* C14: for a chunked key k inserted with plaintext p of size S and chunk
\* size C, and any 0 <= a <= b < num_chunks, get_range(k, a, b) returns
\* exactly p[a*C : min((b+1)*C, S)]; the whole-file read get(k) returns p.
C14_RangeReturnsSlice ==
    LET k == last.key
        p == chunked_as[k].val
        C == config.chunk_size
        num_chunks == (Len(p) + C - 1) \div C
        a == last.start_chunk
        b == last.end_chunk
    IN /\ (last.op = "get_range" /\ last.was_chunked
               /\ a <= b /\ b < num_chunks) =>
            last.ret = Some(SubSeq(p, a * C + 1, Min2((b + 1) * C, Len(p))))
       /\ (last.op = "get" /\ last.was_chunked) => last.ret = Some(p)

\* C15: after any sequence of range reads and heat-decay passes that follows
\* the insert of a chunked key k, the whole-file read of k still returns the
\* original plaintext: in every reachable state each chunk file is encoded
\* under the algorithm of the tier recorded in that chunk's metadata, so
\* that it decodes under that algorithm to its slice of the plaintext.
C15_ChunksMatchRecordedTier ==
    /\ \A k \in DOMAIN file_metadata :
          \A i \in DOMAIN file_metadata[k].chunks :
              LET chunk_meta == file_metadata[k].chunks[i]
              IN /\ ChunkFileExists(HCur, k, i)
                 /\ ChunkDecompress(HCur, chunk_files[k][i], chunk_meta.tier,
                                    chunk_meta.original_size)
                        = ChunkOf(HCur, chunked_as[k].val, i).chunk_data
    /\ (last.op = "get" /\ last.was_chunked) =>
          last.ret = chunked_as[last.key]

\* C16: get_range(k, start, end) returns absent, and changes no chunk's heat
\* or last_access, whenever k is not a chunked key or the range violates
\* 0 <= start <= end < num_chunks (start > end with both indices in bounds
\* included).
C16_BadRangeAbsent ==
    [][LET k == last'.key
           a == last'.start_chunk
           b == last'.end_chunk
       IN (/\ ncalls' = ncalls + 1
           /\ last'.op = "get_range"
           /\ \/ k \notin DOMAIN file_metadata
              \/ ~(a <= b /\ b < file_metadata[k].num_chunks))
          => /\ ~last'.ret.has
             /\ file_metadata' = file_metadata]_vars

\* C17: remove(k) on a chunked key returns true, and afterwards get(k) and
\* get_range(k, 0, 0) return absent, the chunk index has no entry for k and
\* the chunk subdirectory of k no longer exists; remove of a key present in
\* neither namespace returns false.
C17_RemoveChunked ==
    [][LET k == last'.key
       IN (ncalls' = ncalls + 1 /\ last'.op = "remove") =>
            /\ (k \in DOMAIN file_metadata) =>
                  /\ last'.found
                  /\ k \notin DOMAIN file_metadata'
                  /\ k \notin DOMAIN chunk_files'
                  /\ ~get_binary_v3(HCur', k, now').ret.has
                  /\ ~facade_get_chunk_range(HCur', k, 0, 0, now').ret.has
            /\ (k \notin DOMAIN file_metadata /\ ~InlineHas(HCur, k)) =>
                  ~last'.found]_vars

\* C20: each successful read raises heat by 0.10*HEAT_MAX, saturating at
\* HEAT_MAX: an inline get(k) that returns data raises metadata[k].heat, and
\* a chunk range read raises the heat of every chunk in [start, end].
C20_ReadRaisesHeat ==
    [][LET k == last'.key
       IN (ncalls' = ncalls + 1 /\ last'.ret.has) =>
            /\ (last'.op = "get" /\ ~last'.was_chunked) =>
                  /\ k \in DOMAIN node_heat /\ k \in DOMAIN node_heat'
                  /\ node_heat'[k] = Min2(HeatMax, node_heat[k] + HeatStep)
            /\ (last'.op = "get_range") =>
                  \A i \in last'.start_chunk .. last'.end_chunk :
                      file_metadata'[k].chunks[i].heat =
                          Min2(HeatMax,
                               file_metadata[k].chunks[i].heat + HeatStep)]_vars

\* C18: if decoding the stored blob fails during get(k), get returns absent;
\* it never returns the undecoded stored bytes as the value.
C18_DecodeFailureAbsent ==
    [][LET k == last'.key
           S1 == IF k \in DOMAIN write_buffer THEN flush(Cur) ELSE Cur
       IN (/\ ncalls' = ncalls + 1
           /\ last'.op = "get"
           /\ config.compression_enabled
           /\ k \in DOMAIN S1.data_store
           /\ k \in DOMAIN S1.metadata_store
           /\ DecodeFails(S1.data_store[k], S1.metadata_store[k].algorithm,
                          S1.metadata_store[k].original_size))
          => ~last'.ret.has]_vars

\* C19: when a tier is configured with custom compress_fn/decompress_fn
\* hooks, every blob encoded by that tier's compress_fn is decoded by the
\* same tier's decompress_fn: insert followed by get returns the inserted
\* bytes, and after a reorganization every stored blob is the encoding of its
\* plaintext by the encoder (hook or built-in) of the tier it is recorded in.
C19_HooksPaired ==
    /\ (/\ last.op = "get"
        /\ last.ret.has
        /\ \E t \in CompressionTier : config.compress_fn[t])
          => last.ret = ideal[last.key]
    /\ \A k \in (DOMAIN data_store) \cap (DOMAIN metadata_store) :
          (k \notin DOMAIN write_buffer /\ ideal[k].has
                /\ config.compression_enabled)
            => data_store[k] = compress(Cur, ideal[k].val,
                                        metadata_store[k].tier)

\* C21: two heat-decay runs within one heat_decay_interval, whether triggered
\* by post-op hooks or by explicit apply_heat_decay() calls, leave every
\* inline and chunk heat and tier identical to the state after a single run:
\* a call that follows an explicit run at the same clock reading changes no
\* heat and no tier through decay.
C21_DecayOncePerInterval ==
    [][(/\ last.op = "decay"
        /\ ncalls' = ncalls + 1
        /\ now' = now
        /\ config.heat_decay_interval > 0
        /\ \/ last'.op = "decay"
           \/ last'.op = "get" /\ last'.ret.has /\ ~last'.was_chunked)
       => /\ node_heat' = node_heat
          /\ file_metadata' = file_metadata
          /\ (last'.op = "decay") =>
                \A k \in DOMAIN metadata_store :
                    metadata_store'[k].tier = metadata_store[k].tier]_vars

\* C22: after any sequence of insert, get, remove, flush, reorganize and
\* eviction (lazy_persistence on or off), the key set of the data map equals
\* the key set of the metadata map: no blob in the primary map without a
\* NodeMetadata entry, and no NodeMetadata entry without a blob in the
\* primary map.
C22_DataKeysAreMetadataKeys ==
    DOMAIN data_store = DOMAIN metadata_store

\* C22 (amended): in every reachable state the key set of the metadata map
\* equals the union of the key sets of the primary map and of the write
\* buffer: a key staged by a lazy insert has its NodeMetadata entry before
\* its blob reaches the primary map, and no blob, staged or not, is without
\* a NodeMetadata entry.
C22_StoredKeysAreMetadataKeys ==
    (DOMAIN data_store) \cup (DOMAIN write_buffer) = DOMAIN metadata_store

\* a lazy insert has staged a key that the primary map does not hold, after
\* an earlier call removed or evicted some key
C22_Witness ==
    /\ last.op = "insert"
    /\ last.key \in DOMAIN write_buffer
    /\ last.key \notin DOMAIN data_store
    /\ last.key \in DOMAIN metadata_store
    /\ ncalls >= 2

\* C23: in every reachable state, after any insert and after any
\* reorganization pass, with lazy persistence and heat decay enabled or not,
\* every key k with metadata satisfies
\* metadata[k].algorithm = tier_configs[metadata[k].tier].algorithm.
C23_TierBindsAlgorithm ==
    \A k \in DOMAIN metadata_store :
        metadata_store[k].algorithm
            = config.tier_configs[metadata_store[k].tier]

\* C24: in every reachable state, for every key k, metadata[k].compressed_size
\* equals the byte length of the blob currently stored for k (the
\* write-buffer blob if one exists, otherwise the primary-map blob) and
\* metadata[k].original_size equals the length of the plaintext last inserted
\* at k; this holds across insert, overwrite, flush and reorganization.
C24_SizesMatchStoredBlob ==
    \A k \in DOMAIN metadata_store :
        LET blob == IF k \in DOMAIN write_buffer
                    THEN write_buffer[k] ELSE data_store[k]
        IN /\ k \in (DOMAIN write_buffer) \cup (DOMAIN data_store)
           /\ metadata_store[k].compressed_size = Len(blob)
           /\ ideal[k].has
           /\ metadata_store[k].original_size = Len(ideal[k].val)

\* a reorganization pass has re-encoded a non-empty value into another tier
C24_Witness ==
    /\ last.reorg
    /\ \E k \in DOMAIN data_store :
          /\ k \in DOMAIN metadata_store
          /\ metadata_store[k].tier # TIER_4
          /\ metadata_store[k].original_size > 0
          /\ metadata_store[k].compressed_size = Len(data_store[k])

\* C25: reorganize() changes only the tier, algorithm, compressed_size and
\* stored blob of keys, resets ops_since_reorg to 0 and stamps
\* last_reorg_time; it leaves unchanged the key set, every access_count,
\* last_access and original_size, total_accesses, the write buffer, and the
\* plaintext each key decodes to.
C25_ReorganizeFrame ==
    [][(ncalls' = ncalls + 1 /\ last'.op = "reorganize") =>
          /\ operations_since_reorg' = 0
          /\ last_reorg_time' = now
          /\ DOMAIN data_store' = DOMAIN data_store
          /\ DOMAIN metadata_store' = DOMAIN metadata_store
          /\ \A k \in DOMAIN metadata_store :
                /\ metadata_store'[k].access_count
                       = metadata_store[k].access_count
                /\ metadata_store'[k].last_access
                       = metadata_store[k].last_access
                /\ metadata_store'[k].original_size
                       = metadata_store[k].original_size
          /\ total_accesses' = total_accesses
          /\ write_buffer' = write_buffer
          /\ write_buffer_current_size' = write_buffer_current_size
          /\ \A k \in Keys :
                GetLookup(Cur', k, now).ret = GetLookup(Cur, k, now).ret]_vars

\* an explicit pass has moved a non-empty value that had been read to a
\* warmer tier and re-encoded its blob
C25_Witness ==
    /\ last.op = "reorganize"
    /\ \E k \in DOMAIN data_store :
          /\ k \in DOMAIN metadata_store
          /\ metadata_store[k].tier # TIER_4
          /\ metadata_store[k].access_count > 0
          /\ metadata_store[k].original_size > 0
          /\ data_store[k] = compress(Cur, ideal[k].val, metadata_store[k].tier)

C27_FailedNodeUntouched ==
    [][(ncalls' = ncalls + 1 /\ last'.op = "reorganize") =>
          /\ operations_since_reorg' = 0
          /\ \A k \in (DOMAIN data_store) \cap (DOMAIN metadata_store) :
                (/\ config.compression_enabled
                 /\ DecodeFails(data_store[k], metadata_store[k].algorithm,
                                metadata_store[k].original_size))
                => /\ data_store'[k] = data_store[k]
                   /\ metadata_store'[k].tier = metadata_store[k].tier
                   /\ metadata_store'[k].algorithm
                          = metadata_store[k].algorithm
                   /\ metadata_store'[k].compressed_size
                          = metadata_store[k].compressed_size]_vars

\* C30: if encoding fails during insert(k, b), the plaintext is stored
\* uncompressed and metadata[k] records algorithm = NONE with
\* compressed_size = original_size = |b|, so that the stored bytes are the
\* output of the algorithm named in the metadata.
C30_EncodeFailureStoresPlain ==
    LET k == last.key
        blob == IF k \in DOMAIN write_buffer
                THEN write_buffer[k] ELSE data_store[k]
    IN (last.op = "insert_encode_failed" /\ k \in DOMAIN metadata_store) =>
          /\ blob = last.data
          /\ metadata_store[k].algorithm = "NONE"
          /\ metadata_store[k].compressed_size = Len(last.data)
          /\ metadata_store[k].original_size = Len(last.data)

\* C28: on shutdown the write buffer is flushed before the data image is
\* written, and the data image is written before the inline metadata image:
\* the data image is written right after the flush, from an empty buffer,
\* and the metadata image right after the data image, as the last statement.
C28_ShutdownOrder ==
    [][(phase' # phase) =>
          /\ (last'.op = "save_to_disk") =>
                /\ phase = "Flushed"
                /\ last.op = "flush"
                /\ DOMAIN write_buffer = {}
                /\ data_db' = DataImage(Cur)
          /\ (last'.op = "save_metadata") =>
                /\ last.op = "save_to_disk"
                /\ data_db = DataImage(Cur)
                /\ metadata_db' = MetadataImage(Cur)
          /\ (phase' = "Closed") => last'.op = "save_metadata"]_vars

\* a shutdown that found a value staged in the write buffer has completed
C28_Witness ==
    /\ phase = "Closed"
    /\ last.op = "save_metadata"
    /\ at_close.taken
    /\ at_close.buffered # {}
    /\ data_db.exists
    /\ metadata_db.exists


\* ------------------------------------------ a data image that was cut short
\* std::string(1, '\0'): a one-byte key buffer into which nothing was read
NulKey == "_"

\* std::vector<uint8_t>(n): n value-initialized bytes
ZeroFill(n) == [i \in 1..n |-> 0]

\* the keys of a data image in the order save_to_disk wrote them: the
\* iteration order of the std::map data_store_
FileOrder(records) ==
    CHOOSE s \in [1..Cardinality(DOMAIN records) -> DOMAIN records] :
        \A i, j \in DOMAIN s : i < j => KeyRank(s[i]) < KeyRank(s[j])

\* key_len:u32 | key | val_len:u32 | val
RecordLen(key, value) == 4 + Len(key) + 4 + Len(value)

\* what a uint32_t that was never (or only partly) read can hold; a length
\* the allocation of the value buffer survives
GarbageLens == 0..(MaxLen + 1)

\* data.db after a crash left only its first n records and the first off
\* bytes of the next one
TruncatedImage(image, n, off) ==
    LET order == FileOrder(image.records)
        whole == {order[i] : i \in 1..n}
        tail == order[n + 1]
    IN [exists |-> TRUE,
        records |-> [k \in whole |-> image.records[k]],
        tail |-> [key |-> tail, value |-> image.records[tail],
                  present |-> off],
        bytes |-> SumOver([k \in whole |->
                              RecordLen(k, image.records[k])], whole) + off]

\* load_from_disk on such a file. The complete records are assigned as
\* usual. In the iteration of the cut record the stream is tested once,
\* after key_len: a file that ends inside key_len leaves the loop; a file
\* that ends later fails in a later read, every read after it does nothing,
\* and data_store_[key] = value is still executed with what the buffers
\* hold: a key that was not read is its NUL fill, a value_len that was not
\* read is indeterminate (garbage), a value that was read in part keeps the
\* bytes read ahead of its zero fill.
load_from_truncated(S, garbage) ==
    LET whole == load_from_disk(S)
        tail == S.data_db.tail
        off == tail.present
        got == off - (4 + Len(tail.key) + 4)
        key == IF off < 4 + Len(tail.key) THEN NulKey ELSE tail.key
        value == IF got < 0 THEN ZeroFill(garbage)
                 ELSE SubSeq(tail.value, 1, got)
                          \o ZeroFill(Len(tail.value) - got)
    IN IF off < 4 THEN whole
       ELSE [whole EXCEPT !.data_store =
                [k \in (DOMAIN whole.data_store) \cup {key} |->
                    IF k = key THEN value ELSE whole.data_store[k]]]

\* DigestiveDatabase(name, config) on a directory whose data.db was cut
\* inside one of its records; metadata.db is as the last shutdown wrote it
ReopenTruncated ==
    /\ phase = "Closed"
    /\ ncalls < MaxOps
    /\ data_db.exists
    /\ \E n \in 0..(Cardinality(DOMAIN data_db.records) - 1),
          garbage \in GarbageLens :
            LET tail == FileOrder(data_db.records)[n + 1]
            IN \E off \in 0..(RecordLen(tail, data_db.records[tail]) - 1) :
                 LET cut == [Cur EXCEPT
                                !.data_db = TruncatedImage(data_db, n, off)]
                 IN Install(load_metadata(load_from_truncated(
                                Constructed(cut, config, now), garbage)))
    /\ phase' = "Open"
    /\ last' = Call("reopen_truncated", "", <<>>, NullOpt, FALSE, FALSE, {},
                    FALSE)
    /\ ncalls' = ncalls + 1
    /\ UNCHANGED <<now, ideal, evict_seen, at_close, hybrid_vars>>

NextCrash ==
    \/ \E key \in Keys, data \in Plaintexts : Insert(key, data)
    \/ \E key \in Keys : Get(key)
    \/ \E key \in Keys : Remove(key)
    \/ Flush
    \/ Reorganize
    \/ Tick
    \/ DestructorEnter
    \/ DestructorBody
    \/ Reopen
    \/ ReopenTruncated

SpecCrash == InitLife /\ [][NextCrash]_vars

\* C29: when data.db ends in a truncated record, the load discards that
\* record: after the constructor has loaded the cut file, the primary map
\* holds exactly the complete records that precede the cut, and no entry
\* built from partially read fields.
C29_TruncatedTailDiscarded ==
    (last.op = "reopen_truncated") => data_store = data_db.records


\* C31: for every chunked key in the index, num_chunks is total_size divided
\* by chunk_size and rounded up, the chunk ids are exactly 0..num_chunks-1,
\* and every chunk's original_size is chunk_size except the last one's,
\* which is total_size - (num_chunks-1)*chunk_size.
C31_ChunkLayout ==
    \A key \in DOMAIN file_metadata :
        LET m == file_metadata[key]
            n == m.num_chunks
        IN /\ m.chunk_size > 0
           /\ (n - 1) * m.chunk_size < m.total_size
           /\ m.total_size <= n * m.chunk_size
           /\ DOMAIN m.chunks = 0..(n - 1)
           /\ \A i \in DOMAIN m.chunks :
                 m.chunks[i].original_size =
                     IF i < n - 1 THEN m.chunk_size
                     ELSE m.total_size - (n - 1) * m.chunk_size

\* the index holds a key whose size is an exact multiple of chunk_size and a
\* key whose last chunk is short
C31_Witness ==
    /\ last.op = "insert"
    /\ \E j, k \in DOMAIN file_metadata :
          /\ file_metadata[j].num_chunks * file_metadata[j].chunk_size
                 = file_metadata[j].total_size
          /\ file_metadata[k].num_chunks > 1
          /\ file_metadata[k].num_chunks * file_metadata[k].chunk_size
                 > file_metadata[k].total_size


\* C32: in every reachable state every inline node's heat and every chunk's
\* heat lies between 0 and HEAT_MAX, under every decay strategy with a
\* factor between 0 and 1 and for update_chunk_heat calls with a
\* non-negative increment.
C32_HeatBounded ==
    /\ \A k \in DOMAIN node_heat :
          0 <= node_heat[k] /\ node_heat[k] <= HeatMax
    /\ \A key \in DOMAIN file_metadata :
          \A i \in DOMAIN file_metadata[key].chunks :
              /\ 0 <= file_metadata[key].chunks[i].heat
              /\ file_metadata[key].chunks[i].heat <= HeatMax

\* update_chunk_heat has just brought a chunk to the top of the range
C32_Witness ==
    /\ last.op = "update_chunk_heat"
    /\ last.key \in DOMAIN file_metadata
    /\ last.start_chunk \in DOMAIN file_metadata[last.key].chunks
    /\ file_metadata[last.key].chunks[last.start_chunk].heat = HeatMax


\* C33: a heat-decay pass under heat_decay_strategy NONE leaves every inline
\* heat, every chunk heat and every tier unchanged.
C33_NoneDecayIsFrame ==
    [][(/\ ncalls' = ncalls + 1
        /\ last'.op = "decay"
        /\ config.heat_decay_strategy = "NONE") =>
          /\ node_heat' = node_heat
          /\ metadata_store' = metadata_store
          /\ file_metadata' = file_metadata]_vars


\* ------------------------------------------------ a chunk file that is gone
\* chunk_<NNN>.bin of key disappears from the chunk directory (or was never
\* written: insert_chunked only logs when it cannot open the file); the
\* index keeps the chunk's metadata
LoseChunkFile(key, chunk_id) ==
    /\ ncalls < MaxHybridOps
    /\ ChunkFileExists(HCur, key, chunk_id)
    /\ chunk_files' = [chunk_files EXCEPT ![key] = Erase(@, chunk_id)]
    /\ last' = HCall("lose_chunk_file", key, <<>>, NullOpt, FALSE,
                     chunk_id, chunk_id)
    /\ ncalls' = ncalls + 1
    /\ UNCHANGED <<config, data_store, metadata_store, write_buffer,
                   write_buffer_current_size, total_accesses,
                   operations_since_reorg, last_reorg_time, data_db,
                   metadata_db, now, ideal, evict_seen, life_vars,
                   file_metadata, chunk_metadata_db, node_heat,
                   last_heat_decay_time, chunked_as>>

NextChunkLoss ==
    \/ \E key \in Keys, data \in HybridValues : HInsert(key, data)
    \/ \E key \in Keys : HGet(key)
    \/ \E key \in Keys, start_chunk \in ChunkIds, end_chunk \in ChunkIds :
          HGetRange(key, start_chunk, end_chunk)
    \/ \E key \in Keys : HRemove(key)
    \/ \E key \in Keys, chunk_id \in ChunkIds : LoseChunkFile(key, chunk_id)

SpecChunkLoss == InitHybrid /\ [][NextChunkLoss]_vars

\* C34: when a chunk of the requested range cannot be read, because its
\* file or its metadata is missing, the range read returns absent and not a
\* shorter concatenation of the chunks that remain.
C34_UnreadableChunkAbsent ==
    (/\ last.op = "get_range"
     /\ last.key \in DOMAIN file_metadata
     /\ last.end_chunk < file_metadata[last.key].num_chunks
     /\ \E i \in last.start_chunk..last.end_chunk :
           \/ ~ChunkFileExists(HCur, last.key, i)
           \/ i \notin DOMAIN file_metadata[last.key].chunks)
        => ~last.ret.has


\* --------------------------------------------------------- chunk file names
MaxChunkId == 1001          \* largest chunk id whose path is formed

\* std::to_string(chunk_id): the decimal digits, most significant first
RECURSIVE to_string(_)
to_string(chunk_id) ==
    IF chunk_id < 10 THEN <<chunk_id>>
    ELSE to_string(chunk_id \div 10) \o <<chunk_id % 10>>

\* ChunkingEngine::get_chunk_path, the part after chunks_dir_/key/.  The
\* fill count 3 - length() is a size_t: below zero it wraps to 2^64 minus a
\* few units (a uint32_t has at most ten digits), which is above
\* std::string::max_size(), and the fill constructor throws
\* std::length_error before any name is formed.
get_chunk_path(chunk_id) ==
    LET fill == 3 - Len(to_string(chunk_id))
    IN IF fill < 0
       THEN [threw |-> TRUE, name |-> <<>>]
       ELSE [threw |-> FALSE,
             name |-> <<"chunk_">> \o [i \in 1..fill |-> 0]
                          \o to_string(chunk_id) \o <<".bin">>]

\* the chunk loop of insert_chunked over num_chunks chunks, as far as the
\* paths go: it ends at the first chunk whose path cannot be formed; how
\* many chunk files were written before that, and whether it ran to the end
ChunkLoopPaths(num_chunks) ==
    LET failing == {i \in 0..(num_chunks - 1) : get_chunk_path(i).threw}
    IN IF failing = {} THEN [written |-> num_chunks, completed |-> TRUE]
       ELSE [written |-> CHOOSE i \in failing : \A j \in failing : i <= j,
             completed |-> FALSE]

PathCall(op, n, path, loop) ==
    [op |-> op, n |-> n, path |-> path, loop |-> loop]
NoPath == [threw |-> FALSE, name |-> <<>>]
NoLoop == [written |-> 0, completed |-> FALSE]

\* a fresh engine and a chunk id (or a chunk count) n to be used
InitPath ==
    /\ config \in HybridConfigs
    /\ data_store = EmptyMap
    /\ metadata_store = EmptyMap
    /\ write_buffer = EmptyMap
    /\ write_buffer_current_size = 0
    /\ total_accesses = 0
    /\ operations_since_reorg = 0
    /\ now = 0
    /\ last_reorg_time = 0
    /\ data_db = NoFile
    /\ metadata_db = NoFile
    /\ ncalls = 0
    /\ ideal = [k \in Keys |-> NullOpt]
    /\ evict_seen = FALSE
    /\ phase = "Open"
    /\ at_close = NoSnapshot
    /\ file_metadata = EmptyMap
    /\ chunk_files = EmptyMap
    /\ chunk_metadata_db = NoFile
    /\ node_heat = EmptyMap
    /\ last_heat_decay_time = 0
    /\ chunked_as = [k \in Keys |-> NullOpt]
    /\ \E n \in 0..MaxChunkId : last = PathCall("open", n, NoPath, NoLoop)

\* get_chunk_path(key, n)
GetChunkPath ==
    /\ last.op = "open"
    /\ last' = PathCall("get_chunk_path", last.n, get_chunk_path(last.n),
                        NoLoop)
    /\ ncalls' = ncalls + 1
    /\ UNCHANGED <<config, data_store, metadata_store, write_buffer,
                   write_buffer_current_size, total_accesses,
                   operations_since_reorg, last_reorg_time, data_db,
                   metadata_db, now, ideal, evict_seen, life_vars,
                   hybrid_vars>>

\* insert_chunked of a value of n chunks
InsertChunkedPaths ==
    /\ last.op = "open"
    /\ last' = PathCall("insert_chunked", last.n, NoPath,
                        ChunkLoopPaths(last.n))
    /\ ncalls' = ncalls + 1
    /\ UNCHANGED <<config, data_store, metadata_store, write_buffer,
                   write_buffer_current_size, total_accesses,
                   operations_since_reorg, last_reorg_time, data_db,
                   metadata_db, now, ideal, evict_seen, life_vars,
                   hybrid_vars>>

NextPath ==
    \/ GetChunkPath
    \/ InsertChunkedPaths

SpecPath == InitPath /\ [][NextPath]_vars

\* C35: for every chunk id i the chunk file name is "chunk_", the decimal
\* digits of i left-padded with zeros to at least three digits, ".bin"; from
\* 1000 on the name carries no padding and forming it does not fail, so an
\* insert of more than 1000 chunks completes.
C35_ChunkFileName ==
    /\ (last.op = "get_chunk_path") =>
          /\ ~last.path.threw
          /\ last.path.name =
                <<"chunk_">>
                    \o (IF last.n < 10 THEN <<0, 0>>
                        ELSE IF last.n < 100 THEN <<0>> ELSE <<>>)
                    \o to_string(last.n) \o <<".bin">>
    /\ (last.op = "insert_chunked") => last.loop.completed


\* the total byte length of the blobs staged in a write buffer
StagedBytes(buffer) == SumOver([k \in DOMAIN buffer |-> Len(buffer[k])],
                               DOMAIN buffer)

\* C36: under lazy_persistence with write_buffer_size > 0, after every
\* insert the blobs staged in the write buffer total less than
\* write_buffer_size: an insert that brings the staged bytes to or above
\* write_buffer_size flushes the whole buffer before it returns.
C36_BufferBelowThreshold ==
    [][(/\ ncalls' = ncalls + 1
        /\ last'.op = "insert"
        /\ config.lazy_persistence
        /\ config.write_buffer_size > 0) =>
          LET blob == IF config.compression_enabled
                      THEN compress(Cur, last'.data, TIER_4)
                      ELSE last'.data
          IN /\ StagedBytes(write_buffer') < config.write_buffer_size
             /\ (StagedBytes(Put(write_buffer, last'.key, blob))
                     >= config.write_buffer_size) =>
                   DOMAIN write_buffer' = {}]_vars

\* an insert found a blob staged and flushed it together with its own
C36_Witness ==
    /\ last.op = "insert"
    /\ config.lazy_persistence
    /\ config.write_buffer_size = SmallBuffer
    /\ DOMAIN write_buffer = {}
    /\ last.key \in DOMAIN data_store
    /\ \E k \in DOMAIN data_store : k # last.key
    /\ \A k \in DOMAIN data_store : Len(data_store[k]) < SmallBuffer


\* C37: within one session, after any sequence of insert, get, remove,
\* flush, reorganize and eviction, a key has a NodeMetadata entry if and
\* only if it has a blob in the primary map or in the write buffer.
C37_MetadataIffBlob ==
    /\ \A k \in Keys : (k \in DOMAIN metadata_store) <=> HasValue(Cur, k)
    /\ (DOMAIN metadata_store) \cup (DOMAIN data_store)
           \cup (DOMAIN write_buffer) \subseteq Keys

\* an insert has just evicted a key and another key is still stored
C37_Witness ==
    /\ last.op = "insert"
    /\ last.evicted # {}
    /\ \E k \in last.evicted : k \notin DOMAIN metadata_store
    /\ DOMAIN metadata_store # {}


\* the sum of access_count over the keys with metadata
AccessSum(md) == SumOver([k \in DOMAIN md |-> md[k].access_count], DOMAIN md)

\* C38: in every reachable state the sum of access_count over all keys with
\* metadata is at most total_accesses, so every access share used for
\* tiering lies between 0 and 1.
C38_AccessSumBounded ==
    /\ AccessSum(metadata_store) <= total_accesses
    /\ \A k \in DOMAIN metadata_store :
          /\ 0 <= metadata_store[k].access_count
          /\ metadata_store[k].access_count <= total_accesses

\* a key that had been read was overwritten or removed: the sum fell below
\* total_accesses, which kept counting the reads
C38_Witness ==
    /\ last.op \in {"insert", "remove"}
    /\ total_accesses > 0
    /\ AccessSum(metadata_store) < total_accesses


\* C39: every key whose blob is in the write buffer has access_count = 0,
\* tier T4 and the algorithm of tier T4; hence a reorganization pass, which
\* reads only the primary map and does not flush, leaves alone the stale
\* primary-map blob of a key that has a newer value in the buffer.
C39_BufferedKeysAreFresh ==
    [][/\ \A k \in DOMAIN write_buffer' :
             /\ k \in DOMAIN metadata_store'
             /\ metadata_store'[k].access_count = 0
             /\ metadata_store'[k].tier = TIER_4
             /\ metadata_store'[k].algorithm = config'.tier_configs[TIER_4]
       /\ (ncalls' = ncalls + 1 /\ last'.op = "reorganize") =>
             /\ write_buffer' = write_buffer
             /\ \A k \in (DOMAIN write_buffer) \cap (DOMAIN data_store) :
                   /\ data_store'[k] = data_store[k]
                   /\ metadata_store'[k] = metadata_store[k]]_vars

\* a reorganization pass has run over a key whose primary-map blob is older
\* than the value staged for it
C39_Witness ==
    /\ last.op = "reorganize"
    /\ \E k \in (DOMAIN write_buffer) \cap (DOMAIN data_store) :
          data_store[k] # write_buffer[k]


\* a chunk's metadata without its heat and last_access
ChunkShape(chunk_meta) ==
    [chunk_id |-> chunk_meta.chunk_id,
     original_size |-> chunk_meta.original_size,
     compressed_size |-> chunk_meta.compressed_size,
     file_offset |-> chunk_meta.file_offset,
     tier |-> chunk_meta.tier]

\* C40: a chunk range read get_range(k, a, b) changes only the heat and the
\* last_access of chunks a..b of key k: no chunk's tier, original_size or
\* compressed_size, no chunk outside a..b, no chunk of another key, and no
\* chunk file.
C40_RangeReadFrame ==
    [][(ncalls' = ncalls + 1 /\ last'.op = "get_range") =>
          /\ chunk_files' = chunk_files
          /\ DOMAIN file_metadata' = DOMAIN file_metadata
          /\ \A key \in DOMAIN file_metadata :
                /\ file_metadata'[key].total_size
                       = file_metadata[key].total_size
                /\ file_metadata'[key].chunk_size
                       = file_metadata[key].chunk_size
                /\ file_metadata'[key].num_chunks
                       = file_metadata[key].num_chunks
                /\ DOMAIN file_metadata'[key].chunks
                       = DOMAIN file_metadata[key].chunks
                /\ \A i \in DOMAIN file_metadata[key].chunks :
                      /\ ChunkShape(file_metadata'[key].chunks[i])
                             = ChunkShape(file_metadata[key].chunks[i])
                      /\ (\/ key # last'.key
                          \/ i < last'.start_chunk
                          \/ i > last'.end_chunk) =>
                            file_metadata'[key].chunks[i]
                                = file_metadata[key].chunks[i]]_vars

\* a range read has returned the first chunk of a key of two chunks, while
\* another key is chunked as well
C40_Witness ==
    /\ last.op = "get_range"
    /\ last.ret.has
    /\ last.start_chunk = 0
    /\ last.end_chunk = 0
    /\ last.key \in DOMAIN file_metadata
    /\ file_metadata[last.key].num_chunks = 2
    /\ file_metadata[last.key].chunks[0].heat
           > file_metadata[last.key].chunks[1].heat
    /\ \E key \in DOMAIN file_metadata : key # last.key

====
